---------------------------- MODULE Spec2Model ----------------------------
(***************************************************************************)
(* Model of the explainability core of the deepfake detector               *)
(* (ml_app/explainability): the weighted threat-level scorer, the         *)
(* rule-based fake-type classifier, the frame probability timeline, the    *)
(* forensics analyzer, the pipeline that sequences the stages, the audio   *)
(* analysis, the Grad-CAM explainer, the eye-blink detector, the           *)
(* audio-video analyzer and the webcam frame buffer; and of the score of   *)
(* the Aadhaar card verification.  Each component has its own              *)
(* specification; the variables of the other components stay unbuilt.      *)
(*                                                                         *)
(* Number representation.  The Python code computes with floats; the model *)
(* computes with exact integers:                                           *)
(*   - the confidence of the model's prediction and the temporal          *)
(*     consistency score are whole points (0..100);                        *)
(*   - the scores of the forensics metrics and of the audio-video          *)
(*     analysis are in hundredths of a point (8500 stands for 85.0);       *)
(*   - probabilities, ratios and correlations are in hundredths            *)
(*     (10 stands for 0.10);                                               *)
(*   - the five threat component scores are in hundredths of a point       *)
(*     (9500 stands for 95.0);                                             *)
(*   - a weight is a numerator over the scorer's common denominator wden   *)
(*     (35 over 100 stands for 0.35), so that v/total is exact;            *)
(*   - overall_score is the fraction num/den.                              *)
(* A Python dict is a function from its keys (strings) to values, d.get is *)
(* Get, and an Optional argument is a sequence of length 0 (None) or 1.    *)
(* Risk and mitigating factors are the code's message texts without the    *)
(* formatted number.                                                       *)
(***************************************************************************)
EXTENDS Integers, Sequences, FiniteSets, TLC

VARIABLES
    scorer,        \* the ThreatLevelScorer instance (thresholds, weights)
    call,          \* the arguments of the assess call under study
    assessment,    \* None, or the ThreatAssessment / exception of assess
    classifier,    \* the FakeTypeClassifier instance (thresholds)
    clsCall,       \* the arguments of the classify call under study
    clsResult,     \* None, or the FakeTypeResult of classify
    timeline_analyzer,  \* the FrameProbabilityTimeline instance
    tlArgs,        \* the constructor arguments the timeline was built with
    forensics_analyzer, \* the DeepfakeForensicsAnalyzer instance and its sub-analyzers
    fxArgs,        \* the constructor arguments the forensics analyzer was built with
    fed,           \* add_frame calls made on each analyzer since its last reset
    pipelineCall,  \* the arguments of the analyze_video call and what the video is
    pipeline,      \* the analyze_video run: its position and its local variables
    audioCall,     \* what ffmpeg and the file system do during one analyze_audio call
    audio,         \* the analyze_audio run: its position, temporary file and outcome
    hooked,        \* the hooks registered on the shared model's target layer
    explainers,    \* the GradCAMExplainer instances: hook handles and captured tensors
    camCalls,      \* the Grad-CAM calls: their position and what they returned
    modelCall,     \* the call of the shared model made by other code than Grad-CAM
    blink_detector, \* the EyeBlinkDetector instance under study
    blink_log,     \* the frames given to its add_frame since construction or reset
    mmCall,        \* what the audio and lip-sync analyses yield for the video
    mmAnalysis,    \* None, or the MultiModalAnalysis of AudioVideoAnalyzer.analyze
    aadhaarCall,   \* what the file, the OCR and the five checks yield for the image
    aadhaar,       \* None, or the dict verify_aadhaar returned
    frame_buffer,  \* the FrameBuffer instance shared by the threads
    bufferThreads, \* each thread's call in progress on the buffer, or its last result
    bufferLog      \* the frames appended to the buffer and the number popped, in order

threatVars == <<scorer, call, assessment>>
classifierVars == <<classifier, clsCall, clsResult>>
analyzerVars == <<timeline_analyzer, tlArgs, forensics_analyzer, fxArgs, fed>>

pipelineVars == <<pipelineCall, pipeline>>

\* the variables of the components modelled after the pipeline
audioVars == <<audioCall, audio>>
gradcamVars == <<hooked, explainers, camCalls, modelCall>>
blinkVars == <<blink_detector, blink_log>>
mmVars == <<mmCall, mmAnalysis>>
aadhaarVars == <<aadhaarCall, aadhaar>>
bufferVars == <<frame_buffer, bufferThreads, bufferLog>>

\* the variables of the components modelled after the Grad-CAM explainer
afterGradCam == <<blinkVars, mmVars, aadhaarVars, bufferVars>>
afterAudio == <<gradcamVars, afterGradCam>>
afterPipeline == <<audioVars, afterAudio>>

\* the variables of the components modelled after the stateful analyzers
afterAnalyzers == <<pipelineVars, afterPipeline>>

\* the variables of the components modelled after the scorer and the classifier
restVars == <<analyzerVars, afterAnalyzers>>

vars == <<threatVars, classifierVars, restVars>>

---------------------------------------------------------------------------
(* Python values *)

None == <<>>
Some(d) == <<d>>
EmptyDict == [k \in {} |-> 0]

Get(d, k, dflt) == IF k \in DOMAIN d THEN d[k] ELSE dflt

\* dict.update: the keys of upd override those of d
Update(d, upd) ==
    [k \in (DOMAIN d) \cup (DOMAIN upd) |-> IF k \in DOMAIN upd THEN upd[k] ELSE d[k]]

\* truth value of an Optional[Dict]: None and the empty dict are falsy
Truthy(o) == o # None /\ DOMAIN o[1] # {}

RECURSIVE SumOver(_, _)
SumOver(S, f) ==
    IF S = {} THEN 0
    ELSE LET k == CHOOSE x \in S : TRUE IN f[k] + SumOver(S \ {k}, f)

Min(a, b) == IF a <= b THEN a ELSE b
Max(a, b) == IF a >= b THEN a ELSE b
Abs(x) == IF x < 0 THEN -x ELSE x

\* max(d, key=d.get): the first key, in dict order, whose value is the largest
FirstMax(order, scores) ==
    LET best == CHOOSE i \in 1..Len(order) :
                    /\ \A j \in 1..Len(order) : scores[order[j]] <= scores[order[i]]
                    /\ \A j \in 1..(i - 1) : scores[order[j]] < scores[order[i]]
    IN  order[best]

\* a float as the exact fraction num/den
Frac(n, d) == [num |-> n, den |-> d]

RECURSIVE GCD(_, _)
GCD(a, b) == IF b = 0 THEN a ELSE GCD(b, a % b)

\* the fraction in lowest terms
Reduce(f) == LET g == GCD(f.num, f.den) IN Frac(f.num \div g, f.den \div g)

---------------------------------------------------------------------------
(* Python floats (IEEE 754 doubles)                                        *)
(*                                                                         *)
(* The model computes with exact fractions.  Where the code compares a     *)
(* float with a number the exact value is equal to, the rounding of the    *)
(* float arithmetic decides the comparison, and the model computes the     *)
(* double as the code does: a double is its sign, its significand as a     *)
(* natural number (little-endian limbs of 14 bits) and its exponent, the   *)
(* value being m * 2^e; every operation returns the exact result rounded   *)
(* to 53 significant bits, ties to even.  The values of the code are far   *)
(* from the overflow and underflow thresholds.                             *)

Base == 2^14

RECURSIVE Pow2(_)
Pow2(k) == IF k = 0 THEN 1 ELSE 2 * Pow2(k - 1)

RECURSIVE Trim(_)
Trim(a) == IF a # <<>> /\ a[Len(a)] = 0 THEN Trim(SubSeq(a, 1, Len(a) - 1)) ELSE a

RECURSIVE BigOf(_)
BigOf(n) == IF n = 0 THEN <<>> ELSE <<n % Base>> \o BigOf(n \div Base)

RECURSIVE AddC(_, _, _)
AddC(a, b, c) ==
    IF a = <<>> /\ b = <<>>
    THEN IF c = 0 THEN <<>> ELSE <<c>>
    ELSE LET x == IF a = <<>> THEN 0 ELSE Head(a)
             y == IF b = <<>> THEN 0 ELSE Head(b)
             t == x + y + c
         IN  <<t % Base>> \o AddC(IF a = <<>> THEN <<>> ELSE Tail(a),
                                  IF b = <<>> THEN <<>> ELSE Tail(b), t \div Base)

BigAdd(a, b) == AddC(a, b, 0)

RECURSIVE SubB(_, _, _)
SubB(a, b, borrow) ==
    IF a = <<>>
    THEN <<>>
    ELSE LET t == Head(a) - (IF b = <<>> THEN 0 ELSE Head(b)) - borrow
         IN  <<IF t < 0 THEN t + Base ELSE t>>
                 \o SubB(Tail(a), IF b = <<>> THEN <<>> ELSE Tail(b), IF t < 0 THEN 1 ELSE 0)

\* a - b for a >= b
BigSub(a, b) == Trim(SubB(a, b, 0))

RECURSIVE CmpFrom(_, _, _)
CmpFrom(a, b, i) ==
    IF i = 0 THEN 0
    ELSE IF a[i] # b[i] THEN (IF a[i] < b[i] THEN -1 ELSE 1)
    ELSE CmpFrom(a, b, i - 1)

BigCmp(a, b) ==
    IF Len(a) # Len(b) THEN (IF Len(a) < Len(b) THEN -1 ELSE 1) ELSE CmpFrom(a, b, Len(a))

RECURSIVE MulS(_, _, _)
\* a * k + c for one limb k
MulS(a, k, c) ==
    IF a = <<>>
    THEN IF c = 0 THEN <<>> ELSE <<c>>
    ELSE LET t == Head(a) * k + c IN <<t % Base>> \o MulS(Tail(a), k, t \div Base)

RECURSIVE MulL(_, _)
MulL(a, b) == IF b = <<>> THEN <<>> ELSE BigAdd(MulS(a, Head(b), 0), <<0>> \o MulL(a, Tail(b)))

BigMul(a, b) == Trim(MulL(a, b))

\* a * 2^k
Shl(a, k) ==
    IF a = <<>> THEN <<>>
    ELSE [i \in 1..(k \div 14) |-> 0] \o MulS(a, Pow2(k % 14), 0)

\* a \div 2^k
Shr(a, k) ==
    LET d == SubSeq(a, (k \div 14) + 1, Len(a))
        p == Pow2(k % 14)
    IN  Trim([i \in 1..Len(d) |->
                (d[i] \div p) + (IF i < Len(d) THEN (d[i + 1] % p) * (Base \div p) ELSE 0)])

RECURSIVE Bits(_)
Bits(n) == IF n = 0 THEN 0 ELSE 1 + Bits(n \div 2)

BitLen(a) == IF a = <<>> THEN 0 ELSE 14 * (Len(a) - 1) + Bits(a[Len(a)])

RECURSIVE QuotientDigit(_, _, _, _)
\* the largest t in lo..hi with d * t <= r, where d * lo <= r
QuotientDigit(r, d, lo, hi) ==
    IF lo = hi THEN lo
    ELSE IF BigCmp(Trim(MulS(d, (lo + hi + 1) \div 2, 0)), r) <= 0
    THEN QuotientDigit(r, d, (lo + hi + 1) \div 2, hi)
    ELSE QuotientDigit(r, d, lo, ((lo + hi + 1) \div 2) - 1)

RECURSIVE DivL(_, _, _, _, _)
RECURSIVE DivDigit(_, _, _, _, _, _)
\* long division, one limb of n at a time, from limb i down: q is the
\* quotient of the limbs above i and r < d their remainder
DivL(n, d, i, q, r) ==
    IF i = 0 THEN <<q, r>>
    ELSE DivDigit(n, d, i, q, Trim(<<n[i]>> \o r),
                  QuotientDigit(Trim(<<n[i]>> \o r), d, 0, Base - 1))

\* the step of DivL for the running remainder r and its quotient digit t
DivDigit(n, d, i, q, r, t) ==
    DivL(n, d, i - 1, <<t>> \o q, BigSub(r, Trim(MulS(d, t, 0))))

\* <<n \div d, n % d>>
BigDivMod(n, d) == DivL(n, d, Len(n), <<>>, <<>>)

\* q * 2^e, to which the remainder of sign c against one half of its last
\* place is added, rounded ties to even
RoundUp(neg, q, c, e) ==
    [neg |-> neg,
     m |-> IF c > 0 \/ (c = 0 /\ q[1] % 2 = 1) THEN BigAdd(q, <<1>>) ELSE q,
     e |-> e]

\* n * 2^e with its last sh bits rounded off; q is n \div 2^sh
RoundOff(neg, n, q, e, sh) ==
    RoundUp(neg, q, BigCmp(BigSub(n, Shl(q, sh)), Shl(<<1>>, sh - 1)), e + sh)

\* n * 2^e rounded to 53 significant bits, ties to even
Round(neg, n, e) ==
    IF BitLen(n) <= 53
    THEN [neg |-> neg /\ n # <<>>, m |-> n, e |-> IF n = <<>> THEN 0 ELSE e]
    ELSE RoundOff(neg, n, Shr(n, BitLen(n) - 53), e, BitLen(n) - 53)

\* float(n)
FromInt(n) == [neg |-> n < 0, m |-> BigOf(Abs(n)), e |-> 0]

\* (-1)^xneg * a * 2^e + (-1)^yneg * b * 2^e, rounded
AddAligned(xneg, a, yneg, b, e) ==
    Round(IF xneg = yneg \/ BigCmp(a, b) > 0 THEN xneg ELSE yneg,
          IF xneg = yneg THEN BigAdd(a, b)
          ELSE IF BigCmp(a, b) >= 0 THEN BigSub(a, b) ELSE BigSub(b, a),
          e)

\* x + y
FAdd(x, y) ==
    IF x.m = <<>> THEN y
    ELSE IF y.m = <<>> THEN x
    ELSE AddAligned(x.neg, Shl(x.m, x.e - Min(x.e, y.e)),
                    y.neg, Shl(y.m, y.e - Min(x.e, y.e)), Min(x.e, y.e))

\* x - y
FSub(x, y) == FAdd(x, [y EXCEPT !.neg = ~y.neg /\ y.m # <<>>])

\* x * y
FMul(x, y) == Round(x.neg # y.neg, BigMul(x.m, y.m), x.e + y.e)

\* the quotient qr[1] * 2^(e + 1) rounded, with a last bit added that says
\* whether the division left the remainder qr[2]
RoundQuotient(neg, qr, e) ==
    Round(neg, Trim(MulS(qr[1], 2, IF qr[2] = <<>> THEN 0 ELSE 1)), e)

\* the bits the dividend is shifted by for a quotient of 56 bits or more
QuotientShift(x, y) == Max(0, 56 + BitLen(y.m) - BitLen(x.m))

\* x / y for y # 0
FDiv(x, y) ==
    IF x.m = <<>> THEN FromInt(0)
    ELSE RoundQuotient(x.neg # y.neg, BigDivMod(Shl(x.m, QuotientShift(x, y)), y.m),
                       x.e - y.e - QuotientShift(x, y) - 1)

\* -1, 0 or 1 as x is negative, zero or positive
Sign(x) == IF x.m = <<>> THEN 0 ELSE IF x.neg THEN -1 ELSE 1

\* -1, 0 or 1 as x < y, x == y or x > y
FCmp(x, y) == Sign(FSub(x, y))

\* the doubles of the decimals 0.00, 0.01, ..., 1.00
Percent == [n \in 0..100 |-> FDiv(FromInt(n), FromInt(100))]

\* the double of a decimal given in hundredths (0.35 for 35)
Hundredths(n) == IF n \in DOMAIN Percent THEN Percent[n] ELSE FDiv(FromInt(n), FromInt(100))

RECURSIVE FSum(_, _)
\* sum(xs) of the builtin, which adds from the left starting at start
FSum(start, xs) == IF xs = <<>> THEN start ELSE FSum(FAdd(start, Head(xs)), Tail(xs))

---------------------------------------------------------------------------
(* Components that a specification does not exercise stay unbuilt *)

AnalyzersIdle ==
    /\ timeline_analyzer = None /\ tlArgs = None
    /\ forensics_analyzer = None /\ fxArgs = None /\ fed = None

AudioIdle == audioCall = None /\ audio = None

GradCamIdle == hooked = None /\ explainers = None /\ camCalls = None /\ modelCall = None

BlinkIdle == blink_detector = None /\ blink_log = None

MmIdle == mmCall = None /\ mmAnalysis = None

AadhaarIdle == aadhaarCall = None /\ aadhaar = None

BufferIdle == frame_buffer = None /\ bufferThreads = None /\ bufferLog = None

AfterGradCamIdle == BlinkIdle /\ MmIdle /\ AadhaarIdle /\ BufferIdle

AfterAudioIdle == GradCamIdle /\ AfterGradCamIdle

AfterPipelineIdle == AudioIdle /\ AfterAudioIdle

PipelineIdle == pipelineCall = None /\ pipeline = None

AfterAnalyzersIdle == PipelineIdle /\ AfterPipelineIdle

RestIdle == AnalyzersIdle /\ AfterAnalyzersIdle

---------------------------------------------------------------------------
(* ThreatLevelScorer: class constants *)

DEFAULT_THRESHOLDS == [safe_max |-> 25, suspicious_max |-> 55, high_risk_max |-> 80]

\* numerators over 100
DEFAULT_WEIGHTS ==
    [model_confidence |-> 35, forensics_score |-> 25, audio_score |-> 15,
     temporal_score |-> 15, fake_type_score |-> 10]

ComponentKeys ==
    {"model_confidence", "forensics_score", "audio_score", "temporal_score",
     "fake_type_score"}

\* insertion order of component_scores in assess, and of DEFAULT_WEIGHTS
ComponentOrder ==
    <<"model_confidence", "forensics_score", "audio_score", "temporal_score",
      "fake_type_score">>

---------------------------------------------------------------------------
(* ThreatLevelScorer.__init__ *)

RECURSIVE KeysInOrder(_)
\* the keys update() appends to the dict, one after the other
KeysInOrder(S) ==
    IF S = {} THEN <<>>
    ELSE LET k == CHOOSE x \in S : TRUE IN <<k>> \o KeysInOrder(S \ {k})

\* the floats of the weights w given in hundredths
WeightDoubles(w) == [k \in DOMAIN w |-> Hundredths(w[k])]

\* sum(self.weights.values()), the values in the order of the dict
WeightTotal(given) ==
    FSum(FromInt(0),
         [i \in 1..Len(ComponentOrder \o KeysInOrder(DOMAIN given \ ComponentKeys)) |->
             given[(ComponentOrder \o KeysInOrder(DOMAIN given \ ComponentKeys))[i]]])

\* self.weights = {k: v / total for k, v in self.weights.items()}
Normalized(th, w, given, total) ==
    IF Sign(total) = 0
    THEN [state |-> "ZeroDivisionError", thresholds |-> th, weights |-> w, wden |-> 0,
          weight_doubles |-> given]
    ELSE [state |-> "ready", thresholds |-> th, weights |-> w,
          wden |-> SumOver(DOMAIN w, w),
          weight_doubles |-> [k \in DOMAIN w |-> FDiv(given[k], total)]]

\* the instance whose thresholds are th and whose weights, before they are
\* normalized, are w with the floats given
Stored(normalize, th, w, given) ==
    IF normalize THEN Normalized(th, w, given, WeightTotal(given))
    ELSE [state |-> "ready", thresholds |-> th, weights |-> w, wden |-> 100,
          weight_doubles |-> given]

\* The instance after __init__(thresholds, weights).  A falsy weights
\* argument keeps the defaults as they are; otherwise every stored weight is
\* divided by the total, which raises ZeroDivisionError when the total is 0.
\* weights over wden are the exact values, weight_doubles the floats stored.
NewScorer(thresholds, weights) ==
    Stored(Truthy(weights),
           IF Truthy(thresholds) THEN Update(DEFAULT_THRESHOLDS, thresholds[1])
           ELSE DEFAULT_THRESHOLDS,
           IF Truthy(weights) THEN Update(DEFAULT_WEIGHTS, weights[1])
           ELSE DEFAULT_WEIGHTS,
           WeightDoubles(IF Truthy(weights) THEN Update(DEFAULT_WEIGHTS, weights[1])
                         ELSE DEFAULT_WEIGHTS))

---------------------------------------------------------------------------
(* Component scorers: each returns (score, risks, mitigations).  The score *)
(* of the fake-type component is a fraction of points, because the         *)
(* classifier's confidence is one; the other scores are in hundredths.     *)

Scored(s, r, m) == [score |-> s, risks |-> r, mitigations |-> m]

\* a slip: a REAL prediction scored like a FAKE one
ModelRealNotInverted(prediction) ==
    Scored(Get(prediction, "confidence", 50) * 100, <<>>, <<>>)

_score_model_prediction(prediction) ==
    LET label == Get(prediction, "prediction_label", "UNKNOWN")
        confidence == Get(prediction, "confidence", 50)
    IN  IF label = "FAKE"
        THEN Scored(confidence * 100,
                    IF confidence > 80
                    THEN <<"Model detects FAKE with high confidence">>
                    ELSE IF confidence > 60
                    THEN <<"Model detects FAKE with moderate confidence">>
                    ELSE <<>>,
                    <<>>)
        ELSE IF label = "REAL"
        THEN Scored((100 - confidence) * 100,
                    <<>>,
                    IF confidence > 80
                    THEN <<"Model detects REAL with high confidence">>
                    ELSE <<>>)
        ELSE Scored(5000, <<>>, <<>>)

\* a slip: the authenticity score taken as the threat score
ForensicsNotInverted(metrics) ==
    IF metrics = None THEN Scored(5000, <<>>, <<>>)
    ELSE Scored(Get(metrics[1], "overall_forensics_score", 5000), <<>>, <<>>)

_score_forensics(metrics) ==
    IF metrics = None THEN Scored(5000, <<>>, <<>>)
    ELSE
    LET m == metrics[1]
        face_score == Get(m, "face_consistency_score", 5000)
        blink_score == Get(m, "eye_blink_score", 5000)
        stability_score == Get(m, "temporal_stability_score", 5000)
        artifact_score == Get(m, "compression_artifact_score", 5000)
        overall_forensics == Get(m, "overall_forensics_score", 5000)
    IN  Scored(10000 - overall_forensics,
               (IF face_score < 5000 THEN <<"Low face consistency score">> ELSE <<>>)
               \o (IF blink_score < 4000 THEN <<"Abnormal eye blink pattern">> ELSE <<>>)
               \o (IF stability_score < 5000 THEN <<"Low temporal stability">> ELSE <<>>)
               \o (IF artifact_score > 6000 THEN <<"High compression artifacts">> ELSE <<>>),
               (IF face_score >= 5000 /\ face_score > 8000
                THEN <<"High face consistency">> ELSE <<>>)
               \o (IF stability_score >= 5000 /\ stability_score > 8000
                   THEN <<"Good temporal stability">> ELSE <<>>))

_score_multimodal(metrics) ==
    IF metrics = None THEN Scored(5000, <<>>, <<>>)
    ELSE
    LET m == metrics[1]
        audio_spoof == Get(m, "audio_spoof_score", 5000)
        lip_sync == Get(m, "lip_sync_score", 5000)
        combined == Get(m, "combined_score", 5000)
    IN  Scored(10000 - combined,
               (IF lip_sync < 4000 THEN <<"Poor lip-audio synchronization">> ELSE <<>>)
               \o (IF audio_spoof > 6000 THEN <<"Audio spoofing indicators detected">>
                   ELSE <<>>),
               IF lip_sync >= 4000 /\ lip_sync > 7000 THEN <<"Good lip-audio sync">>
               ELSE <<>>)

\* a slip: the temporal component as the inverse of the consistency score alone
TemporalFromConsistencyOnly(stats) ==
    IF stats = None THEN Scored(5000, <<>>, <<>>)
    ELSE Scored((100 - Get(stats[1], "temporal_consistency_score", 50)) * 100, <<>>, <<>>)

\* mean_fake_prob * 100 * 0.6 + (100 - consistency) * 0.4, with
\* mean_fake_probability and anomaly_ratio in hundredths
_score_temporal(stats) ==
    IF stats = None THEN Scored(5000, <<>>, <<>>)
    ELSE
    LET s == stats[1]
        mean_fake_prob == Get(s, "mean_fake_probability", 50)
        anomaly_ratio == Get(s, "anomaly_ratio", 0)
        consistency == Get(s, "temporal_consistency_score", 50)
    IN  Scored((mean_fake_prob * 6 + (100 - consistency) * 4) * 10,
               (IF mean_fake_prob > 70 THEN <<"High average fake probability">> ELSE <<>>)
               \o (IF anomaly_ratio > 20 THEN <<"High temporal anomaly rate">> ELSE <<>>),
               IF consistency > 80 THEN <<"High temporal consistency">> ELSE <<>>)

\* the float threat_score of _score_temporal (line 323), operation by operation
TemporalDouble(stats) ==
    IF stats = None THEN FromInt(50)
    ELSE LET s == stats[1]
             mean_fake_prob == Hundredths(Get(s, "mean_fake_probability", 50))
             consistency == Get(s, "temporal_consistency_score", 50)
         IN  FAdd(FMul(FMul(mean_fake_prob, FromInt(100)), Hundredths(60)),
                  FMul(FromInt(100 - consistency), Hundredths(40)))

ManipulationTypes == {"gan_face_swap", "lip_sync_manipulation", "face_reenactment"}

\* The float of a confidence num/den.  A whole number and a fraction whose
\* denominator is a power of two are floats themselves; any other fraction
\* is a share the classifier computed as (max_score / total_score) * 100
\* (classifier.py, line 256), rounded at the division and at the product.
ConfidenceDouble(fr) ==
    IF fr.den = 1 THEN FromInt(fr.num)
    ELSE IF fr.den = Pow2(Bits(fr.den) - 1)
    THEN FDiv(FromInt(fr.num), FromInt(fr.den))
    ELSE FMul(FDiv(FromInt(fr.num), FromInt(100 * fr.den)), FromInt(100))

\* -1, 0 or 1 as the confidence is below, equal to or above the whole number
\* t; fr is its exact value and double its float.  The float is within 1e-12
\* of the fraction, so that its rounding decides only when the fraction
\* equals t.
CmpConfidence(fr, double, t) ==
    IF fr.num < t * fr.den THEN -1
    ELSE IF fr.num > t * fr.den THEN 1
    ELSE FCmp(double, FromInt(t))

\* a slip: the authentic branch not inverted
FakeTypeAuthenticNotInverted(result) ==
    IF result = None THEN Scored(Frac(50, 1), <<>>, <<>>)
    ELSE LET r == result[1]
             fake_type == Get(r, "type", "unknown")
             confidence == Get(r, "confidence", Frac(50, 1))
         IN  IF fake_type = "authentic" \/ fake_type \in ManipulationTypes
             THEN Scored(confidence, <<>>, <<>>)
             ELSE Scored(Frac(50, 1),
                         <<"Unable to determine manipulation type with confidence">>,
                         <<>>)

\* lines 351-363 for the type and the confidence of the result, the
\* confidence as its exact value and as its float
ScoreOfType(fake_type, confidence, double) ==
    IF fake_type = "authentic"
    THEN Scored(\* max(0, 100 - confidence)
                IF CmpConfidence(confidence, double, 100) >= 0 THEN Frac(0, 1)
                ELSE Frac(100 * confidence.den - confidence.num, confidence.den),
                <<>>,
                IF CmpConfidence(confidence, double, 70) > 0
                THEN <<"Classified as authentic">> ELSE <<>>)
    ELSE IF fake_type \in ManipulationTypes
    THEN Scored(confidence,
                IF CmpConfidence(confidence, double, 60) > 0
                THEN <<"Classified as manipulation type">> ELSE <<>>,
                <<>>)
    ELSE Scored(Frac(50, 1),
                <<"Unable to determine manipulation type with confidence">>,
                <<>>)

_score_fake_type(result) ==
    IF result = None THEN Scored(Frac(50, 1), <<>>, <<>>)
    ELSE ScoreOfType(Get(result[1], "type", "unknown"),
                     Get(result[1], "confidence", Frac(50, 1)),
                     ConfidenceDouble(Get(result[1], "confidence", Frac(50, 1))))

\* max(0, 100 - confidence) for the float confidence
InvertedDouble(inverted) == IF inverted.neg THEN FromInt(0) ELSE inverted

\* the float threat_score of _score_fake_type
FakeTypeDouble(result) ==
    IF result = None THEN FromInt(50)
    ELSE IF Get(result[1], "type", "unknown") = "authentic"
    THEN InvertedDouble(FSub(FromInt(100),
                             ConfidenceDouble(Get(result[1], "confidence", Frac(50, 1)))))
    ELSE IF Get(result[1], "type", "unknown") \in ManipulationTypes
    THEN ConfidenceDouble(Get(result[1], "confidence", Frac(50, 1)))
    ELSE FromInt(50)

---------------------------------------------------------------------------
(* Level, confidence, recommendations *)

\* a slip: the bands closed on the wrong side
DetermineLevelStrict(thresholds, num, den, side) ==
    IF num < thresholds["safe_max"] * den THEN "safe"
    ELSE IF num < thresholds["suspicious_max"] * den THEN "suspicious"
    ELSE IF num < thresholds["high_risk_max"] * den THEN "high_risk"
    ELSE "critical"

\* score <= t for the float score whose exact value is num/den; side is the
\* sign of (score - t) when num/den = t
AtMost(num, den, side, t) == num < t * den \/ (num = t * den /\ side <= 0)

\* score is the float whose exact value is the fraction num/den with den > 0
_determine_level(thresholds, num, den, side) ==
    IF AtMost(num, den, side, thresholds["safe_max"]) THEN "safe"
    ELSE IF AtMost(num, den, side, thresholds["suspicious_max"]) THEN "suspicious"
    ELSE IF AtMost(num, den, side, thresholds["high_risk_max"]) THEN "high_risk"
    ELSE "critical"

\* a slip: the frame bonus granted from 50 frames on
ConfidenceFrameBonusAt50(forensics, multimodal, timeline) ==
    LET f == IF Truthy(forensics)
             THEN 15 + (IF Get(forensics[1], "frame_count", 0) >= 50 THEN 5 ELSE 0)
             ELSE 0
        m == IF Truthy(multimodal)
             THEN 10 + (IF Get(Get(multimodal[1], "audio_features", EmptyDict),
                               "is_valid", FALSE)
                        THEN 5 ELSE 0)
             ELSE 0
        t == IF Truthy(timeline) THEN 5 ELSE 0
    IN  Min(95, 60 + f + m + t)

_calculate_confidence(forensics, multimodal, timeline) ==
    LET base == 60
        f == IF Truthy(forensics)
             THEN 15 + (IF Get(forensics[1], "frame_count", 0) > 50 THEN 5 ELSE 0)
             ELSE 0
        m == IF Truthy(multimodal)
             THEN 10 + (IF Get(Get(multimodal[1], "audio_features", EmptyDict),
                               "is_valid", FALSE)
                        THEN 5 ELSE 0)
             ELSE 0
        t == IF Truthy(timeline) THEN 5 ELSE 0
    IN  Min(95, base + f + m + t)

RecommendationTable ==
    [safe |-> <<"Content appears authentic, but verify source if high-stakes",
                "Check metadata and chain of custody for additional assurance",
                "Consider context and source credibility">>,
     suspicious |-> <<"Recommend manual review by trained analyst",
                      "Cross-reference with known authentic content from the same source",
                      "Check for additional corroborating evidence",
                      "Consider running additional verification tools">>,
     high_risk |-> <<"Do NOT use this content without thorough verification",
                     "Escalate to security team for professional analysis",
                     "Attempt to locate original source content",
                     "Document chain of custody for the content",
                     "Consider potential impact if content is used">>,
     critical |-> <<"BLOCK: Do not publish or distribute this content",
                    "Immediately escalate to security/legal team",
                    "Preserve all metadata and source information",
                    "Document detection for potential legal purposes",
                    "Investigate the source and distribution chain">>,
     unknown |-> <<"Seek additional analysis from specialized tools",
                   "Request manual expert review",
                   "Do not use content until verified",
                   "Collect additional context about content origin">>]

_generate_recommendations(level) ==
    IF level \in DOMAIN RecommendationTable THEN RecommendationTable[level]
    ELSE RecommendationTable["unknown"]

\* the parts of the explanation text that depend on the assessment: the
\* component named after "Primary concern:", which is top_component, and the
\* risks joined after "Key risk factors:" (risks[:3])
_generate_explanation(level, top_component, risks) ==
    [level |-> level,
     primary_concern |-> top_component,
     key_risk_factors |-> SubSeq(risks, 1, Min(3, Len(risks)))]

---------------------------------------------------------------------------
(* ThreatLevelScorer.assess *)

\* the float threat_score of _score_forensics and _score_multimodal:
\* 100 - score for the score that the metrics hold under key
InverseDouble(metrics, key) ==
    IF metrics = None THEN FromInt(50)
    ELSE FSub(FromInt(100), Hundredths(Get(metrics[1], key, 5000)))

\* the floats of component_scores; the first is a whole number
ComponentDoubles(c) ==
    [model_confidence |-> FromInt(_score_model_prediction(c.model_prediction).score \div 100),
     forensics_score |-> InverseDouble(c.forensics_metrics, "overall_forensics_score"),
     audio_score |-> InverseDouble(c.multimodal_metrics, "combined_score"),
     temporal_score |-> TemporalDouble(c.timeline_stats),
     fake_type_score |-> FakeTypeDouble(c.fake_type_result)]

\* the components whose float went through a rounding
RoundedComponents(c) ==
    (IF c.timeline_stats = None THEN {} ELSE {"temporal_score"})
    \cup (IF c.forensics_metrics = None
             \/ Get(c.forensics_metrics[1], "overall_forensics_score", 5000) % 100 = 0
          THEN {} ELSE {"forensics_score"})
    \cup (IF c.multimodal_metrics = None
             \/ Get(c.multimodal_metrics[1], "combined_score", 5000) % 100 = 0
          THEN {} ELSE {"audio_score"})
    \cup (IF c.fake_type_result = None
             \/ Get(c.fake_type_result[1], "confidence", Frac(50, 1)).den = 1
          THEN {} ELSE {"fake_type_score"})

\* max(components, key=components.get): the first component, in dict order,
\* whose float no other exceeds.  scores are the exact values of the floats
\* doubles, so that the floats order only the components in rounded among
\* those with the largest exact score.
TopComponent(scores, doubles, rounded) ==
    LET largest == {k \in ComponentKeys : \A j \in ComponentKeys : scores[j] <= scores[k]}
        Exceeds(a, b) ==
            \/ b \notin largest
            \/ /\ a # b
               /\ {a, b} \cap rounded # {}
               /\ FCmp(doubles[a], doubles[b]) > 0
    IN  ComponentOrder[CHOOSE i \in 1..Len(ComponentOrder) :
            /\ ComponentOrder[i] \in largest
            /\ \A j \in 1..Len(ComponentOrder) :
                  (j < i \/ ComponentOrder[j] \in largest) =>
                      IF j < i THEN Exceeds(ComponentOrder[i], ComponentOrder[j])
                      ELSE ~Exceeds(ComponentOrder[j], ComponentOrder[i])]

\* sum(component_scores[k] * self.weights[k] for k in self.weights.keys())
OverallDouble(doubles, weight_doubles) ==
    FSum(FromInt(0),
         [i \in 1..Len(ComponentOrder) |->
             FMul(doubles[ComponentOrder[i]], weight_doubles[ComponentOrder[i]])])

\* the sign of (overall - t) for the float overall when its exact value
\* num/den is a threshold t, and 0 when it is none
SideOf(thresholds, num, den, overall) ==
    LET met == {t \in {thresholds[k] : k \in DOMAIN thresholds} : num = t * den}
    IN  IF met = {} THEN 0 ELSE FCmp(overall, FromInt(CHOOSE t \in met : TRUE))

\* lines 173-208: the ThreatAssessment for the exact weighted sum num/den
\* and the sign side of the float sum against the threshold it meets
ThreatAssessment(s, c, component_scores, score_den, num, den, side, top_component, risks, mitigations) ==
    [status |-> "ok",
     level |-> _determine_level(s.thresholds, num, den, side),
     overall_score |-> [num |-> num, den |-> den, side |-> side],
     confidence |-> _calculate_confidence(c.forensics_metrics, c.multimodal_metrics,
                                          c.timeline_stats),
     component_scores |-> component_scores,
     score_den |-> score_den,
     risk_factors |-> risks,
     mitigating_factors |-> mitigations,
     explanation |-> _generate_explanation(_determine_level(s.thresholds, num, den, side),
                                           top_component, risks),
     recommendations |->
         _generate_recommendations(_determine_level(s.thresholds, num, den, side))]

\* lines 132-177 for the results of the five component scorers and the
\* floats of their scores
Weighted(s, c, mo, fo, au, te, ty, doubles) ==
    LET type_score == Reduce(ty.score)
        component_scores ==
            [model_confidence |-> mo.score * type_score.den,
             forensics_score |-> fo.score * type_score.den,
             audio_score |-> au.score * type_score.den,
             temporal_score |-> te.score * type_score.den,
             fake_type_score |-> type_score.num * 100]
        num == SumOver(DOMAIN s.weights,
                       [k \in DOMAIN s.weights |-> component_scores[k] * s.weights[k]])
        den == 100 * type_score.den * s.wden
    IN  IF ~(DOMAIN s.weights \subseteq DOMAIN component_scores)
        THEN [status |-> "KeyError"]
        ELSE ThreatAssessment(s, c, component_scores, 100 * type_score.den, num, den,
                       SideOf(s.thresholds, num, den,
                              OverallDouble(doubles, s.weight_doubles)),
                       TopComponent(component_scores, doubles, RoundedComponents(c)),
                       mo.risks \o fo.risks \o au.risks \o te.risks \o ty.risks,
                       mo.mitigations \o fo.mitigations \o au.mitigations
                       \o te.mitigations \o ty.mitigations)

\* The value of assess(model_prediction, forensics_metrics, multimodal_metrics,
\* timeline_stats, fake_type_result) on the scorer s: a ThreatAssessment, or
\* the KeyError raised by component_scores[k] for a weight key k that is no
\* component.  The component scores are numerators over score_den, and
\* overall_score is the fraction num/den of the exact weighted sum; side is
\* -1 or 1 when that sum equals a threshold and the float sum of the code
\* lies below or above it, and 0 otherwise.
AssessValue(s, c) ==
    Weighted(s, c,
             _score_model_prediction(c.model_prediction),
             _score_forensics(c.forensics_metrics),
             _score_multimodal(c.multimodal_metrics),
             _score_temporal(c.timeline_stats),
             _score_fake_type(c.fake_type_result),
             ComponentDoubles(c))

---------------------------------------------------------------------------
(* Inputs of the threat scorer *)

ThresholdArgs == {None, Some([safe_max |-> 30])}

WeightArgs ==
    { None,
      Some(EmptyDict),
      Some([model_confidence |-> 50]),
      Some([model_confidence |-> 70, forensics_score |-> 30]),
      Some([model_confidence |-> 20, forensics_score |-> 20, audio_score |-> 20,
            temporal_score |-> 20, fake_type_score |-> 20]),
      Some([model_confidence |-> 0, forensics_score |-> 0, audio_score |-> 0,
            temporal_score |-> 0, fake_type_score |-> 0]),
      Some([extra_score |-> 50]) }

ModelPredictions ==
    { [prediction_label |-> "FAKE", confidence |-> 95],
      [prediction_label |-> "FAKE", confidence |-> 80],
      [prediction_label |-> "FAKE", confidence |-> 70],
      [prediction_label |-> "FAKE", confidence |-> 25],
      [prediction_label |-> "FAKE", confidence |-> 150],
      [prediction_label |-> "REAL", confidence |-> 90],
      [prediction_label |-> "REAL", confidence |-> 45],
      EmptyDict }

ForensicsArgs ==
    { None,
      Some(EmptyDict),
      Some([error |-> "failed"]),
      Some([overall_forensics_score |-> 2000]),
      Some([face_consistency_score |-> 4000, eye_blink_score |-> 3000,
            temporal_stability_score |-> 4000, compression_artifact_score |-> 7000,
            overall_forensics_score |-> 2000, frame_count |-> 100]),
      Some([face_consistency_score |-> 9000, eye_blink_score |-> 8000,
            temporal_stability_score |-> 9000, compression_artifact_score |-> 2000,
            overall_forensics_score |-> 8500, frame_count |-> 50]),
      Some([face_consistency_score |-> 7000, eye_blink_score |-> 6000,
            temporal_stability_score |-> 7500, compression_artifact_score |-> 3000,
            overall_forensics_score |-> 7500, frame_count |-> 51]),
      Some([face_consistency_score |-> 5000, eye_blink_score |-> 4000,
            temporal_stability_score |-> 5000, compression_artifact_score |-> 6000,
            overall_forensics_score |-> 4500, frame_count |-> 10]),
      Some([face_consistency_score |-> 10000, eye_blink_score |-> 0,
            temporal_stability_score |-> 10000, compression_artifact_score |-> 1912,
            overall_forensics_score |-> 7427, frame_count |-> 100]) }

MultimodalArgs ==
    { None,
      Some([error |-> "failed"]),
      Some([combined_score |-> 2500]),
      Some([audio_spoof_score |-> 7000, lip_sync_score |-> 3000, combined_score |-> 2500,
            audio_features |-> [is_valid |-> TRUE]]),
      Some([audio_spoof_score |-> 2000, lip_sync_score |-> 8500, combined_score |-> 8000,
            audio_features |-> [is_valid |-> TRUE]]),
      Some([audio_spoof_score |-> 5000, lip_sync_score |-> 5000, combined_score |-> 5000,
            audio_features |-> [is_valid |-> FALSE]]),
      Some([audio_spoof_score |-> 3000, lip_sync_score |-> 7000, combined_score |-> 7500]),
      Some([audio_spoof_score |-> 4058, lip_sync_score |-> 5333, combined_score |-> 5577]) }

TimelineArgs ==
    { None,
      Some([error |-> "failed"]),
      Some([mean_fake_probability |-> 10, temporal_variance |-> 5,
            anomaly_ratio |-> 0, temporal_consistency_score |-> 90]),
      Some([mean_fake_probability |-> 90, temporal_variance |-> 40,
            anomaly_ratio |-> 30, temporal_consistency_score |-> 20]),
      Some([mean_fake_probability |-> 25, temporal_variance |-> 12,
            anomaly_ratio |-> 10, temporal_consistency_score |-> 75]) }

\* confidences are fractions of points: the pipeline hands assess the
\* classifier's confidence
FakeTypeArgs ==
    { None,
      Some([type |-> "authentic", confidence |-> Frac(85, 1)]),
      Some([type |-> "authentic", confidence |-> Frac(75, 1)]),
      Some([type |-> "gan_face_swap", confidence |-> Frac(80, 1)]),
      Some([type |-> "lip_sync_manipulation", confidence |-> Frac(50, 1)]),
      Some([type |-> "face_reenactment", confidence |-> Frac(1000, 13)]),
      Some([type |-> "unknown_manipulation", confidence |-> Frac(40, 1)]),
      Some([type |-> "unknown", confidence |-> Frac(0, 1)]) }

AssessCalls ==
    [model_prediction : ModelPredictions, forensics_metrics : ForensicsArgs,
     multimodal_metrics : MultimodalArgs, timeline_stats : TimelineArgs,
     fake_type_result : FakeTypeArgs]

---------------------------------------------------------------------------
(* FakeTypeClassifier *)

THRESHOLDS ==
    [face_swap_face_consistency |-> 60, face_swap_temporal_stability |-> 55,
     lip_sync_audio_mismatch |-> 40, lip_sync_mouth_stability |-> 45,
     artifact_threshold |-> 50]

\* FakeTypeClassifier.__init__(thresholds)
NewClassifier(thresholds) ==
    [state |-> "ready",
     thresholds |-> IF Truthy(thresholds) THEN Update(THRESHOLDS, thresholds[1])
                    ELSE THRESHOLDS]

\* the FakeType enum in declaration order, which is the key order of scores
FakeTypes ==
    <<"authentic", "gan_face_swap", "lip_sync_manipulation", "face_reenactment",
      "unknown_manipulation">>

ZeroScores == [t \in {FakeTypes[i] : i \in 1..Len(FakeTypes)} |-> 0]

\* scores and evidence travel together through the rule functions
Tally(scores, evidence) == [scores |-> scores, evidence |-> evidence]

\* scores[t] += n for every t |-> n of inc, and evidence.append(text)
Bump(acc, inc, text) ==
    Tally([t \in DOMAIN acc.scores |-> acc.scores[t] + Get(inc, t, 0)],
          IF text = "" THEN acc.evidence ELSE Append(acc.evidence, text))

\* the model rule at the head of classify
ModelRule(acc, model_prediction) ==
    IF Get(model_prediction, "prediction_label", "") = "REAL"
    THEN IF Get(model_prediction, "confidence", 0) > 70
         THEN Bump(acc, [authentic |-> 50], "Model predicts REAL")
         ELSE acc
    ELSE Bump(acc, EmptyDict, "Model predicts FAKE")

\* a slip: no credit to the authentic bucket for a consistent face
AnalyzeForensicsNoAuthenticCredit(th, metrics, acc) ==
    LET face_score == Get(metrics, "face_consistency_score", 10000)
        stability_score == Get(metrics, "temporal_stability_score", 10000)
        blink_score == Get(metrics, "eye_blink_score", 5000)
        artifact_score == Get(metrics, "compression_artifact_score", 0)
        a1 == IF face_score < 100 * th["face_swap_face_consistency"]
              THEN Bump(acc, [gan_face_swap |-> 25], "Low face consistency")
              ELSE acc
        a2 == IF stability_score < 100 * th["face_swap_temporal_stability"]
              THEN Bump(a1, [gan_face_swap |-> 15, face_reenactment |-> 10],
                        "Low temporal stability")
              ELSE a1
        a3 == IF blink_score < 3000
              THEN Bump(a2, [gan_face_swap |-> 20, face_reenactment |-> 15],
                        "Abnormal blink pattern")
              ELSE a2
    IN  IF artifact_score > 100 * th["artifact_threshold"]
        THEN Bump(a3, [gan_face_swap |-> 10, unknown_manipulation |-> 5],
                  "High compression artifacts")
        ELSE a3

_analyze_forensics(th, metrics, acc) ==
    LET face_score == Get(metrics, "face_consistency_score", 10000)
        stability_score == Get(metrics, "temporal_stability_score", 10000)
        blink_score == Get(metrics, "eye_blink_score", 5000)
        artifact_score == Get(metrics, "compression_artifact_score", 0)
        a1 == IF face_score < 100 * th["face_swap_face_consistency"]
              THEN Bump(acc, [gan_face_swap |-> 25], "Low face consistency")
              ELSE Bump(acc, [authentic |-> 15], "")
        a2 == IF stability_score < 100 * th["face_swap_temporal_stability"]
              THEN Bump(a1, [gan_face_swap |-> 15, face_reenactment |-> 10],
                        "Low temporal stability")
              ELSE a1
        a3 == IF blink_score < 3000
              THEN Bump(a2, [gan_face_swap |-> 20, face_reenactment |-> 15],
                        "Abnormal blink pattern")
              ELSE a2
    IN  IF artifact_score > 100 * th["artifact_threshold"]
        THEN Bump(a3, [gan_face_swap |-> 10, unknown_manipulation |-> 5],
                  "High compression artifacts")
        ELSE a3

\* the thresholds are in whole points; correlation is in hundredths
_analyze_multimodal(th, metrics, acc) ==
    LET lip_sync_score == Get(metrics, "lip_sync_score", 10000)
        audio_spoof == Get(metrics, "audio_spoof_score", 0)
        a1 == IF lip_sync_score < 100 * th["lip_sync_audio_mismatch"]
              THEN Bump(acc, [lip_sync_manipulation |-> 35], "Poor lip-audio sync")
              ELSE acc
        a2 == IF audio_spoof > 6000
              THEN Bump(a1, [lip_sync_manipulation |-> 20], "Audio spoofing indicators")
              ELSE a1
    IN  IF "lip_sync_features" \in DOMAIN metrics
           /\ Get(metrics["lip_sync_features"], "correlation", 100) < 30
        THEN Bump(a2, [lip_sync_manipulation |-> 25], "Low audio-visual correlation")
        ELSE a2

\* temporal_variance, anomaly_ratio and mean_fake_probability are in hundredths
_analyze_timeline(stats, acc) ==
    LET variance == Get(stats, "temporal_variance", 0)
        anomaly_ratio == Get(stats, "anomaly_ratio", 0)
        mean_prob == Get(stats, "mean_fake_probability", 0)
        a1 == IF variance > 15
              THEN Bump(acc, [face_reenactment |-> 15], "High temporal probability variance")
              ELSE acc
        a2 == IF anomaly_ratio > 20
              THEN Bump(a1, [gan_face_swap |-> 10, face_reenactment |-> 10],
                        "High anomaly ratio")
              ELSE a1
    IN  IF mean_prob > 80
        THEN Bump(a2, [gan_face_swap |-> 10], "Consistently high fake probability")
        ELSE a2

\* min(cap, (max_score / total_score) * 100) as a fraction
CappedShare(cap, max_score, total_score) ==
    IF 100 * max_score >= cap * total_score
    THEN [num |-> cap, den |-> 1]
    ELSE [num |-> 100 * max_score, den |-> total_score]

\* a slip: the fallback to unknown_manipulation for weak evidence left out
PrimaryTypeWithoutMinimum(scores, model_prediction) ==
    LET fake_order == SubSeq(FakeTypes, 2, Len(FakeTypes))
        fake_keys == {fake_order[i] : i \in 1..Len(fake_order)}
        max_type == FirstMax(fake_order, scores)
        total_score == SumOver(fake_keys, scores)
    IN  IF /\ Get(model_prediction, "prediction_label", "") = "REAL"
           /\ Get(model_prediction, "confidence", 0) > 70
           /\ scores["authentic"] > 40
        THEN [type |-> "authentic",
              confidence |-> [num |-> Min(95, Get(model_prediction, "confidence", 0)),
                              den |-> 1]]
        ELSE IF \A t \in fake_keys : scores[t] = 0
        THEN [type |-> "unknown_manipulation", confidence |-> [num |-> 40, den |-> 1]]
        ELSE [type |-> max_type,
              confidence |-> CappedShare(95, scores[max_type], total_score)]

\* returns (primary type, confidence as the fraction num/den)
_determine_primary_type(scores, model_prediction) ==
    LET fake_order == SubSeq(FakeTypes, 2, Len(FakeTypes))
        fake_keys == {fake_order[i] : i \in 1..Len(fake_order)}
        max_type == FirstMax(fake_order, scores)
        max_score == scores[max_type]
        total_score == SumOver(fake_keys, scores)
    IN  IF /\ Get(model_prediction, "prediction_label", "") = "REAL"
           /\ Get(model_prediction, "confidence", 0) > 70
           /\ scores["authentic"] > 40
        THEN [type |-> "authentic",
              confidence |-> [num |-> Min(95, Get(model_prediction, "confidence", 0)),
                              den |-> 1]]
        ELSE IF \A t \in fake_keys : scores[t] = 0
        THEN [type |-> "unknown_manipulation", confidence |-> [num |-> 40, den |-> 1]]
        ELSE IF max_score < 20
        THEN [type |-> "unknown_manipulation",
              confidence |-> CappedShare(50, max_score, total_score)]
        ELSE [type |-> max_type, confidence |-> CappedShare(95, max_score, total_score)]

\* The FakeTypeResult of classify(model_prediction, forensics_metrics,
\* multimodal_metrics, timeline_stats) on the classifier c.
ClassifyValue(c, a) ==
    LET a0 == ModelRule(Tally(ZeroScores, <<>>), a.model_prediction)
        a1 == IF Truthy(a.forensics_metrics)
              THEN _analyze_forensics(c.thresholds, a.forensics_metrics[1], a0)
              ELSE a0
        a2 == IF Truthy(a.multimodal_metrics)
              THEN _analyze_multimodal(c.thresholds, a.multimodal_metrics[1], a1)
              ELSE a1
        a3 == IF Truthy(a.timeline_stats)
              THEN _analyze_timeline(a.timeline_stats[1], a2)
              ELSE a2
        primary == _determine_primary_type(a3.scores, a.model_prediction)
    IN  [primary_type |-> primary.type,
         confidence |-> primary.confidence,
         all_scores |-> a3.scores,
         evidence |-> a3.evidence]

---------------------------------------------------------------------------
(* Inputs of the classifier: every rule's condition is taken on both sides *)
(* of its threshold                                                        *)

ClassifierThresholdArgs == {None, Some([artifact_threshold |-> 60])}

ClsModelPredictions ==
    { [prediction_label |-> "FAKE", confidence |-> 90],
      [prediction_label |-> "REAL", confidence |-> 90],
      [prediction_label |-> "REAL", confidence |-> 99],
      [prediction_label |-> "REAL", confidence |-> 71],
      [prediction_label |-> "REAL", confidence |-> 70],
      EmptyDict }

ClsForensicsArgs ==
    {None, Some(EmptyDict), Some([error |-> "failed"])}
    \cup { Some([face_consistency_score |-> f, temporal_stability_score |-> s,
                 eye_blink_score |-> b, compression_artifact_score |-> a]) :
           f \in {5999, 6000}, s \in {5499, 5500}, b \in {2999, 3000},
           a \in {5000, 5001, 6001} }

ClsMultimodalArgs ==
    {None, Some([error |-> "failed"])}
    \cup { Some([lip_sync_score |-> l, audio_spoof_score |-> s]) :
           l \in {3999, 4000}, s \in {6000, 6001} }
    \cup { Some([lip_sync_score |-> l, audio_spoof_score |-> s,
                 lip_sync_features |-> [correlation |-> c]]) :
           l \in {3999, 4000}, s \in {6000, 6001}, c \in {29, 30} }

ClsTimelineArgs ==
    {None, Some([error |-> "failed"])}
    \cup { Some([temporal_variance |-> v, anomaly_ratio |-> r,
                 mean_fake_probability |-> m]) :
           v \in {15, 16}, r \in {20, 21}, m \in {80, 81} }

ClassifyCalls ==
    [model_prediction : ClsModelPredictions, forensics_metrics : ClsForensicsArgs,
     multimodal_metrics : ClsMultimodalArgs, timeline_stats : ClsTimelineArgs]

---------------------------------------------------------------------------
(* Threat scorer: state machine *)

ClassifierIdle == classifier = [state |-> "unbuilt"] /\ clsCall = None /\ clsResult = None

ThreatInit ==
    /\ scorer = [state |-> "unbuilt"]
    /\ call \in AssessCalls
    /\ assessment = None
    /\ ClassifierIdle
    /\ RestIdle

\* the instance of every constructor call
Constructed == [th \in ThresholdArgs, w \in WeightArgs |-> NewScorer(th, w)]

\* scorer = ThreatLevelScorer(thresholds, weights)
Construct ==
    /\ scorer.state = "unbuilt"
    /\ \E th \in ThresholdArgs, w \in WeightArgs : scorer' = Constructed[th, w]
    /\ UNCHANGED <<call, assessment, classifier, clsCall, clsResult, restVars>>

\* assessment = scorer.assess(**call)
Assess ==
    /\ scorer.state = "ready"
    /\ assessment' = Some(AssessValue(scorer, call))
    /\ UNCHANGED <<scorer, call, classifier, clsCall, clsResult, restVars>>

ThreatNext == Construct \/ Assess

ThreatSpec == ThreatInit /\ [][ThreatNext]_vars

---------------------------------------------------------------------------
(* Properties of the threat scorer (checked under ThreatSpec) *)

Assessed == assessment # None /\ assessment[1].status = "ok"
A == assessment[1]

DefaultScorer ==
    /\ scorer.state = "ready"
    /\ scorer.thresholds = DEFAULT_THRESHOLDS
    /\ scorer.weights = DEFAULT_WEIGHTS
    /\ scorer.wden = 100

Contains(seq, x) == \E i \in 1..Len(seq) : seq[i] = x

\* p points in the unit of A.component_scores
Pts(p) == p * A.score_den

\* the float overall_score <= t
ScoreAtMost(t) == AtMost(A.overall_score.num, A.overall_score.den, A.overall_score.side, t)

\* Scenario E of the spec: FAKE at 95, forensics overall 20, multimodal
\* combined 25, no timeline stats and no fake-type result
ScenarioE ==
    /\ call.model_prediction = [prediction_label |-> "FAKE", confidence |-> 95]
    /\ call.forensics_metrics # None
    /\ Get(call.forensics_metrics[1], "overall_forensics_score", 5000) = 2000
    /\ call.multimodal_metrics # None
    /\ Get(call.multimodal_metrics[1], "combined_score", 5000) = 2500
    /\ call.timeline_stats = None
    /\ call.fake_type_result = None

\* C1 as stated: on Scenario E the default scorer returns level critical with
\* overall_score above 80 and the block and escalate recommendations.
C1_ScenarioE_Critical ==
    (Assessed /\ DefaultScorer /\ ScenarioE) =>
        /\ A.level = "critical"
        /\ A.overall_score.num > 80 * A.overall_score.den
        /\ Contains(A.recommendations, "BLOCK: Do not publish or distribute this content")
        /\ Contains(A.recommendations, "Immediately escalate to security/legal team")

\* C1 amended: on Scenario E the default scorer returns level high_risk with
\* overall_score exactly 77 (95*0.35 + 80*0.25 + 75*0.15 + 50*0.15 + 50*0.10,
\* as the exact sum and as the float sum), and its recommendations are the
\* high-risk list: escalate to the security team, without the block
\* instruction.
C1_ScenarioE_HighRisk ==
    (Assessed /\ DefaultScorer /\ ScenarioE) =>
        /\ A.level = "high_risk"
        /\ A.overall_score.num = 77 * A.overall_score.den
        /\ FCmp(OverallDouble(ComponentDoubles(call), scorer.weight_doubles),
                FromInt(77)) = 0
        /\ Contains(A.recommendations,
                    "Escalate to security team for professional analysis")
        /\ ~Contains(A.recommendations,
                     "BLOCK: Do not publish or distribute this content")

C1_Witness == Assessed /\ DefaultScorer /\ ScenarioE

LevelRank == [safe |-> 0, suspicious |-> 1, high_risk |-> 2, critical |-> 3]

\* C2: with the default thresholds the level is safe iff score <= 25,
\* suspicious iff 25 < score <= 55, high_risk iff 55 < score <= 80, critical
\* iff score > 80; it is never unknown; and, being the number of thresholds
\* the score exceeds, it is monotone non-decreasing in the score.
C2_LevelBands ==
    (Assessed /\ scorer.thresholds = DEFAULT_THRESHOLDS) =>
        /\ A.level \in {"safe", "suspicious", "high_risk", "critical"}
        /\ (A.level = "safe") <=> ScoreAtMost(25)
        /\ (A.level = "suspicious") <=> (~ScoreAtMost(25) /\ ScoreAtMost(55))
        /\ (A.level = "high_risk") <=> (~ScoreAtMost(55) /\ ScoreAtMost(80))
        /\ (A.level = "critical") <=> ~ScoreAtMost(80)
        /\ LevelRank[A.level] = Cardinality({t \in {25, 55, 80} : ~ScoreAtMost(t)})

\* an assessment whose score is exactly a band's upper edge
C2_Witness ==
    /\ Assessed /\ scorer.thresholds = DEFAULT_THRESHOLDS
    /\ A.overall_score.num = 25 * A.overall_score.den
    /\ A.overall_score.side = 0
    /\ A.level = "safe"

\* C3 as stated: after construction with any weights override the stored
\* component weights sum to 1, and every later assess returns the weighted
\* sum of the five component scores.
C3_WeightsNormalized ==
    (scorer.state # "unbuilt") =>
        /\ scorer.state = "ready"
        /\ SumOver(ComponentKeys, [k \in ComponentKeys |-> Get(scorer.weights, k, 0)])
               = scorer.wden
        /\ (assessment # None) =>
               /\ A.status = "ok"
               /\ A.overall_score.num * (A.score_den * scorer.wden) =
                      A.overall_score.den
                      * SumOver(ComponentKeys,
                                [k \in ComponentKeys |->
                                    A.component_scores[k] * scorer.weights[k]])

\* C4 as stated: every component score and the overall score lie in [0,100]
\* for every input assess accepts.
C4_ScoresInRange ==
    Assessed =>
        /\ \A k \in ComponentKeys :
               0 <= A.component_scores[k] /\ A.component_scores[k] <= Pts(100)
        /\ 0 <= A.overall_score.num
        /\ A.overall_score.num <= 100 * A.overall_score.den

RiskTexts(component) ==
    CASE component = "forensics" ->
           {"Low face consistency score", "Abnormal eye blink pattern",
            "Low temporal stability", "High compression artifacts",
            "High face consistency", "Good temporal stability"}
      [] component = "audio" ->
           {"Poor lip-audio synchronization", "Audio spoofing indicators detected",
            "Good lip-audio sync"}
      [] component = "temporal" ->
           {"High average fake probability", "High temporal anomaly rate",
            "High temporal consistency"}

NoFactorOf(component) ==
    /\ \A i \in 1..Len(A.risk_factors) : A.risk_factors[i] \notin RiskTexts(component)
    /\ \A i \in 1..Len(A.mitigating_factors) :
           A.mitigating_factors[i] \notin RiskTexts(component)

ForensicsAndAudioInverted ==
    /\ (call.forensics_metrics # None) =>
           100 * A.component_scores.forensics_score =
               Pts(10000 - Get(call.forensics_metrics[1], "overall_forensics_score", 5000))
    /\ (call.multimodal_metrics # None) =>
           100 * A.component_scores.audio_score =
               Pts(10000 - Get(call.multimodal_metrics[1], "combined_score", 5000))

MissingIsNeutral ==
    /\ (call.forensics_metrics = None) =>
           A.component_scores.forensics_score = Pts(50) /\ NoFactorOf("forensics")
    /\ (call.multimodal_metrics = None) =>
           A.component_scores.audio_score = Pts(50) /\ NoFactorOf("audio")
    /\ (call.timeline_stats = None) =>
           A.component_scores.temporal_score = Pts(50) /\ NoFactorOf("temporal")

\* C5 as stated: the forensics, audio and temporal components are 100 minus
\* overall_forensics_score, combined_score and temporal_consistency_score, and
\* a missing input gives exactly 50 with no risk and no mitigating factor.
C5_AllThreeInverted ==
    Assessed =>
        /\ ForensicsAndAudioInverted
        /\ (call.timeline_stats # None) =>
               A.component_scores.temporal_score =
                   Pts(100 - Get(call.timeline_stats[1], "temporal_consistency_score", 50))
        /\ MissingIsNeutral

\* C5 amended: the forensics and audio components are 100 minus
\* overall_forensics_score and combined_score; the temporal component is
\* 0.6 * (100 * mean_fake_probability) + 0.4 * (100 - temporal_consistency_score);
\* a missing input gives exactly 50 with no risk and no mitigating factor.
C5_TemporalMixesMeanProbability ==
    Assessed =>
        /\ ForensicsAndAudioInverted
        /\ (call.timeline_stats # None) =>
               10 * A.component_scores.temporal_score =
                   Pts(6 * Get(call.timeline_stats[1], "mean_fake_probability", 50)
                       + 4 * (100 - Get(call.timeline_stats[1],
                                        "temporal_consistency_score", 50)))
        /\ MissingIsNeutral

\* timeline stats whose threat component is not 100 - consistency, next to a
\* missing multimodal input
C5_Witness ==
    /\ Assessed
    /\ call.timeline_stats # None
    /\ "temporal_consistency_score" \in DOMAIN call.timeline_stats[1]
    /\ A.component_scores.temporal_score
           # Pts(100 - call.timeline_stats[1].temporal_consistency_score)
    /\ call.forensics_metrics # None
    /\ "overall_forensics_score" \in DOMAIN call.forensics_metrics[1]
    /\ call.multimodal_metrics = None

FrameCount == Get(call.forensics_metrics[1], "frame_count", 0)
AudioValid ==
    Get(Get(call.multimodal_metrics[1], "audio_features", EmptyDict), "is_valid", FALSE)

\* the confidence of the spec's rule, with the frame bonus from minFrames on
ConfidenceRule(minFrames) ==
    Min(95,
        60
        + (IF Truthy(call.forensics_metrics) THEN 15 ELSE 0)
        + (IF Truthy(call.forensics_metrics) /\ FrameCount >= minFrames THEN 5 ELSE 0)
        + (IF Truthy(call.multimodal_metrics) THEN 10 ELSE 0)
        + (IF Truthy(call.multimodal_metrics) /\ AudioValid THEN 5 ELSE 0)
        + (IF Truthy(call.timeline_stats) THEN 5 ELSE 0))

\* C6 as stated: confidence is 60, +15 for forensics present, +5 more when at
\* least 50 frames were analyzed, +10 for multimodal present, +5 when the
\* audio is valid, +5 for timeline present, capped at 95.
C6_FrameBonusFrom50 == Assessed => A.confidence = ConfidenceRule(50)

\* C6 amended: as stated, except that the +5 frame bonus needs more than 50
\* analyzed frames (frame_count > 50); present means a non-empty dict.  The
\* value depends on the three inputs' presence, frame_count and is_valid only.
C6_FrameBonusAbove50 == Assessed => A.confidence = ConfidenceRule(51)

\* exactly 50 frames analyzed: no frame bonus
C6_Witness ==
    /\ Assessed
    /\ Truthy(call.forensics_metrics) /\ FrameCount = 50
    /\ Truthy(call.multimodal_metrics) /\ AudioValid
    /\ A.confidence = 90

\* C7: the fake-type component is the confidence for the three manipulation
\* types, 100 - confidence for authentic, and 50 with the 'unable to
\* determine' risk factor appended for unknown_manipulation or any other type.
C7_FakeTypeComponent ==
    (Assessed /\ call.fake_type_result # None) =>
        LET r == call.fake_type_result[1]
            score == A.component_scores.fake_type_score
            unable == "Unable to determine manipulation type with confidence"
        IN  /\ (r.type \in ManipulationTypes) =>
                   score * r.confidence.den = Pts(r.confidence.num)
            /\ (r.type = "authentic") =>
                   score * r.confidence.den = Pts(100 * r.confidence.den - r.confidence.num)
            /\ (r.type \in ManipulationTypes \cup {"authentic"}) =>
                   ~Contains(A.risk_factors, unable)
            /\ (r.type \notin ManipulationTypes \cup {"authentic"}) =>
                   /\ score = Pts(50)
                   /\ Len(A.risk_factors) > 0
                   /\ A.risk_factors[Len(A.risk_factors)] = unable

C7_Witness ==
    /\ Assessed
    /\ call.fake_type_result # None
    /\ call.fake_type_result[1].type = "authentic"
    /\ A.component_scores.fake_type_score = Pts(15)

---------------------------------------------------------------------------
(* Classifier: state machine *)

ThreatIdle == scorer = [state |-> "unbuilt"] /\ call = None /\ assessment = None

ClassifierInit ==
    /\ classifier = [state |-> "unbuilt"]
    /\ clsCall \in ClassifyCalls
    /\ clsResult = None
    /\ ThreatIdle
    /\ RestIdle

\* classifier = FakeTypeClassifier(thresholds)
ConstructClassifier ==
    /\ classifier.state = "unbuilt"
    /\ \E th \in ClassifierThresholdArgs : classifier' = NewClassifier(th)
    /\ UNCHANGED <<scorer, call, assessment, clsCall, clsResult, restVars>>

\* clsResult = classifier.classify(**clsCall)
Classify ==
    /\ classifier.state = "ready"
    /\ clsResult' = Some(ClassifyValue(classifier, clsCall))
    /\ UNCHANGED <<scorer, call, assessment, classifier, clsCall, restVars>>

ClassifierNext == ConstructClassifier \/ Classify

ClassifierSpec == ClassifierInit /\ [][ClassifierNext]_vars

---------------------------------------------------------------------------
(* Properties of the classifier (checked under ClassifierSpec) *)

Classified == clsResult # None
R == clsResult[1]

DefaultClassifier == classifier.state = "ready" /\ classifier.thresholds = THRESHOLDS

\* a condition of the rule table on a metric of an optional metrics dict:
\* it holds only when the metrics are given and carry the metric
Below(o, k, t) == Truthy(o) /\ k \in DOMAIN o[1] /\ o[1][k] < t
Above(o, k, t) == Truthy(o) /\ k \in DOMAIN o[1] /\ o[1][k] > t

ModelSaysReal ==
    /\ Get(clsCall.model_prediction, "prediction_label", "") = "REAL"
    /\ Get(clsCall.model_prediction, "confidence", 0) > 70

Rule(holds, adds) == [holds |-> holds, adds |-> adds]

\* the rule table of the spec, section 4.5
SpecRuleTable ==
    LET f == clsCall.forensics_metrics
        m == clsCall.multimodal_metrics
        t == clsCall.timeline_stats
    IN  << Rule(ModelSaysReal, [authentic |-> 50]),
           Rule(Below(f, "face_consistency_score", 6000), [gan_face_swap |-> 25]),
           Rule(Below(f, "temporal_stability_score", 5500),
                [gan_face_swap |-> 15, face_reenactment |-> 10]),
           Rule(Below(f, "eye_blink_score", 3000),
                [gan_face_swap |-> 20, face_reenactment |-> 15]),
           Rule(Above(f, "compression_artifact_score", 5000),
                [gan_face_swap |-> 10, unknown_manipulation |-> 5]),
           Rule(Below(m, "lip_sync_score", 4000), [lip_sync_manipulation |-> 35]),
           Rule(Above(m, "audio_spoof_score", 6000), [lip_sync_manipulation |-> 20]),
           Rule(/\ Truthy(m)
                /\ "lip_sync_features" \in DOMAIN m[1]
                /\ "correlation" \in DOMAIN m[1].lip_sync_features
                /\ m[1].lip_sync_features.correlation < 30,
                [lip_sync_manipulation |-> 25]),
           Rule(Above(t, "temporal_variance", 15), [face_reenactment |-> 15]),
           Rule(Above(t, "anomaly_ratio", 20),
                [gan_face_swap |-> 10, face_reenactment |-> 10]),
           Rule(Above(t, "mean_fake_probability", 80), [gan_face_swap |-> 10]) >>

\* the rule the code applies beyond the table: forensics metrics that do not
\* show a face consistency below 60 credit the authentic bucket
FaceConsistentRule ==
    Rule(/\ Truthy(clsCall.forensics_metrics)
         /\ ~Below(clsCall.forensics_metrics, "face_consistency_score", 6000),
         [authentic |-> 15])

RECURSIVE RuleSum(_, _)
RuleSum(rules, bucket) ==
    IF rules = <<>> THEN 0
    ELSE (IF Head(rules).holds THEN Get(Head(rules).adds, bucket, 0) ELSE 0)
         + RuleSum(Tail(rules), bucket)

\* C8 as stated: every bucket's score is the sum of the increments of the
\* rules of the spec's table whose conditions hold; the authentic bucket gets
\* points from the model rule alone.
C8_ScoresFollowRuleTable ==
    (Classified /\ DefaultClassifier) =>
        \A b \in DOMAIN R.all_scores : R.all_scores[b] = RuleSum(SpecRuleTable, b)

\* C8 amended: every bucket's score is the sum of the increments of the
\* rules of the spec's table whose conditions hold, plus one more rule: when
\* forensics metrics are given and face_consistency_score is not below 60,
\* the authentic bucket gets +15.  The authentic bucket gets points from the
\* model rule (+50) and from this rule (+15) only.
C8_ScoresFollowRuleTablePlusFaceRule ==
    (Classified /\ DefaultClassifier) =>
        /\ \A b \in DOMAIN R.all_scores :
               R.all_scores[b] = RuleSum(Append(SpecRuleTable, FaceConsistentRule), b)
        /\ R.all_scores.authentic
               = (IF ModelSaysReal THEN 50 ELSE 0) + (IF FaceConsistentRule.holds THEN 15 ELSE 0)

\* a FAKE prediction with a consistent face: authentic holds 15 points, and
\* rules of all three metric groups have fired
C8_Witness ==
    /\ Classified /\ DefaultClassifier
    /\ ~ModelSaysReal
    /\ R.all_scores.authentic = 15
    /\ R.all_scores.gan_face_swap = 65
    /\ R.all_scores.lip_sync_manipulation = 80
    /\ R.all_scores.face_reenactment = 50
    /\ R.all_scores.unknown_manipulation = 5

NonAuthentic == {"gan_face_swap", "lip_sync_manipulation", "face_reenactment",
                 "unknown_manipulation"}

\* C9 as stated: authentic is returned only when the model says REAL above
\* 70 and the authentic bucket scores at least as much as every other
\* bucket; if a manipulation bucket outscores it the result is not authentic.
C9_AuthenticOnlyWhenDominant ==
    (Classified /\ R.primary_type = "authentic") =>
        /\ ModelSaysReal
        /\ \A b \in NonAuthentic : R.all_scores[b] <= R.all_scores.authentic

MaxNonAuthentic ==
    CHOOSE v \in {R.all_scores[b] : b \in NonAuthentic} :
        \A b \in NonAuthentic : R.all_scores[b] <= v

TotalNonAuthentic == SumOver(NonAuthentic, R.all_scores)

\* C10: a result other than authentic names the highest-scoring
\* non-authentic bucket with confidence min(95, 100 * score / total of the
\* non-authentic scores), except that a highest score below 20 (all zero
\* included) gives unknown_manipulation with confidence at most 50; the
\* confidence always lies in [0,95].
C10_PrimaryTypeAndConfidence ==
    Classified =>
        LET num == R.confidence.num
            den == R.confidence.den
            best == MaxNonAuthentic
            total == TotalNonAuthentic
        IN  /\ den > 0 /\ 0 <= num /\ num <= 95 * den
            /\ (R.primary_type # "authentic" /\ best < 20) =>
                   /\ R.primary_type = "unknown_manipulation"
                   /\ num <= 50 * den
            /\ (R.primary_type # "authentic" /\ best >= 20) =>
                   /\ R.primary_type \in NonAuthentic
                   /\ R.all_scores[R.primary_type] = best
                   /\ IF 100 * best >= 95 * total
                      THEN num = 95 * den
                      ELSE num * total = 100 * best * den

\* weak evidence only: the highest non-authentic score is 10
C10_Witness ==
    /\ Classified
    /\ R.primary_type = "unknown_manipulation"
    /\ MaxNonAuthentic = 10
    /\ R.confidence.num = 50 * R.confidence.den

---------------------------------------------------------------------------
(* FrameProbabilityTimeline (timeline.py)                                  *)
(*                                                                         *)
(* A logits tensor is the sequence of its class logits, in whole units;    *)
(* index 1 of the sequence is Python's index 0 (FAKE), index 2 is REAL.    *)
(* A probability is the exact fraction num/den that softmax yields when    *)
(* exp is taken from the table EXP (exp rounded to hundredths); the        *)
(* anomaly threshold is in hundredths; fps is in whole frames per second;  *)
(* a timestamp is the fraction num/den of milliseconds.  A call that can   *)
(* raise yields its outcome ("returned" or "raised"), its value (the       *)
(* exception's name when raised) and the timeline it leaves as self.       *)

\* 100 * exp(l), rounded
EXP == [l \in -2..2 |->
          CASE l = -2 -> 14 [] l = -1 -> 37 [] l = 0 -> 100 [] l = 1 -> 272
            [] l = 2 -> 739]

\* F.softmax(logits, dim=-1)
softmax(logits) ==
    LET total == SumOver(DOMAIN logits, [i \in DOMAIN logits |-> EXP[logits[i]]])
    IN  [i \in DOMAIN logits |-> Frac(EXP[logits[i]], total)]

\* FrameProbabilityTimeline(fps, anomaly_threshold, smoothing_window)
FrameProbabilityTimeline(fps, anomaly_threshold, smoothing_window) ==
    [fps |-> fps, anomaly_threshold |-> anomaly_threshold,
     smoothing_window |-> smoothing_window, frame_data |-> <<>>,
     metadata |-> EmptyDict]

\* reset(): the frame data and the metadata are emptied, nothing else
reset(self) == [self EXCEPT !.frame_data = <<>>, !.metadata = EmptyDict]

\* _detect_anomaly(index); index is the 1-based position of the entry
_detect_anomaly(self, index) ==
    IF Len(self.frame_data) < 2 THEN self
    ELSE LET current == self.frame_data[index]
             prev == self.frame_data[index - 1]
             diff == Abs(current.fake_probability.num * prev.fake_probability.den
                          - prev.fake_probability.num * current.fake_probability.den)
             den == current.fake_probability.den * prev.fake_probability.den
         IN  \* change > self.anomaly_threshold
             IF 100 * diff > self.anomaly_threshold * den
             THEN [self EXCEPT !.frame_data[index].is_anomaly = TRUE,
                               !.frame_data[index].anomaly_score = Frac(diff, den)]
             ELSE self

\* add_frame(frame_index, logits, timestamp_ms).  Without a timestamp, line
\* 91 divides frame_index by self.fps before anything is appended: with
\* fps 0 the call raises ZeroDivisionError and leaves the timeline as it was.
add_frame(self, frame_index, logits, timestamp_ms) ==
    LET probs == softmax(logits)
        \* probs[0] if probs.numel() > 1 else probs.item()
        fake_prob == probs[1]
        \* probs[1] if probs.numel() > 1 else 1 - fake_prob
        real_prob == IF Len(probs) > 1 THEN probs[2]
                     ELSE Frac(fake_prob.den - fake_prob.num, fake_prob.den)
        ts == IF timestamp_ms = None THEN Frac(frame_index * 1000, self.fps)
              ELSE Frac(timestamp_ms[1], 1)
        frame_prob == [frame_index |-> frame_index, fake_probability |-> fake_prob,
                       real_probability |-> real_prob, timestamp_ms |-> ts,
                       is_anomaly |-> FALSE, anomaly_score |-> Frac(0, 1)]
        appended == [self EXCEPT !.frame_data = Append(@, frame_prob)]
    IN  IF timestamp_ms = None /\ self.fps = 0
        THEN [outcome |-> "raised", value |-> "ZeroDivisionError", self |-> self]
        ELSE [outcome |-> "returned", value |-> None,
              self |-> _detect_anomaly(appended, Len(appended.frame_data))]

RECURSIVE AddEach(_, _, _)
\* for i, logits in enumerate(logits_sequence): self.add_frame(start_frame + i, logits);
\* the loop ends at the first add_frame that raises
AddEach(self, start_frame, logits_sequence) ==
    IF logits_sequence = <<>> THEN [outcome |-> "returned", value |-> None, self |-> self]
    ELSE IF add_frame(self, start_frame, Head(logits_sequence), None).outcome = "raised"
    THEN add_frame(self, start_frame, Head(logits_sequence), None)
    ELSE AddEach(add_frame(self, start_frame, Head(logits_sequence), None).self,
                 start_frame + 1, Tail(logits_sequence))

\* add_batch(start_frame, logits_sequence, fps): self.fps is set first (line
\* 126) and stays set when an add_frame of the loop raises
add_batch(self, start_frame, logits_sequence, fps) ==
    AddEach(IF fps # None THEN [self EXCEPT !.fps = fps[1]] ELSE self,
            start_frame, logits_sequence)

\* get_temporal_stats(): the empty dict for a timeline without entries;
\* otherwise the counts of the dict returned (its other keys are float
\* statistics of the probabilities), anomaly_ratio as the exact fraction
get_temporal_stats(self) ==
    IF self.frame_data = <<>> THEN EmptyDict
    ELSE LET anomaly_count ==
                 Cardinality({i \in 1..Len(self.frame_data) : self.frame_data[i].is_anomaly})
         IN  [anomaly_count |-> anomaly_count,
              anomaly_ratio |-> Frac(anomaly_count, Len(self.frame_data)),
              total_frames |-> Len(self.frame_data)]

FracAdd(f, g) ==
    LET den == (f.den \div GCD(f.den, g.den)) * g.den
    IN  Reduce(Frac(f.num * (den \div f.den) + g.num * (den \div g.den), den))

RECURSIVE FracSum(_)
FracSum(fs) == IF fs = <<>> THEN Frac(0, 1) ELSE FracAdd(Head(fs), FracSum(Tail(fs)))

\* np.mean(probs[start:end]), in lowest terms; start and end are Python's
\* slice bounds, so the slice is entries start+1 .. end of the sequence
MeanOfSlice(probs, start, end) ==
    LET total == FracSum(SubSeq(probs, start + 1, end))
    IN  Reduce(Frac(total.num, total.den * (end - start)))

\* a slip: the window starts at i instead of reaching back
MeanOfTrailingSlice(probs, start, end) ==
    MeanOfSlice(probs, Min(end - 1, start + 1), end)

\* get_smoothed_probabilities(): the list returned, each value in lowest terms
get_smoothed_probabilities(self) ==
    LET probs == [i \in 1..Len(self.frame_data) |-> Reduce(self.frame_data[i].fake_probability)]
        half == self.smoothing_window \div 2
    IN  IF self.frame_data = <<>> THEN <<>>
        ELSE IF Len(probs) < self.smoothing_window THEN probs
        ELSE [k \in 1..Len(probs) |->
                \* i = k - 1 is Python's index
                MeanOfSlice(probs, Max(0, (k - 1) - half),
                                   Min(Len(probs), (k - 1) + half + 1))]

---------------------------------------------------------------------------
(* The timeline as a state machine: one instance, any sequence of          *)
(* add_frame, add_batch and reset calls                                    *)

\* most entries a timeline holds in the model
MaxFrames == 3

\* the constructor stores fps as given; fps 0 is what the pipeline passes on
\* for a container without a frame rate (integration.py, lines 172, 200)
TimelineCtorArgs ==
    {[fps |-> 30, anomaly_threshold |-> 30, smoothing_window |-> 5],
     [fps |-> 25, anomaly_threshold |-> 50, smoothing_window |-> 3],
     [fps |-> 30, anomaly_threshold |-> 30, smoothing_window |-> 2],
     [fps |-> 0, anomaly_threshold |-> 30, smoothing_window |-> 5]}

\* two-class logits (FAKE, REAL) as the detector's linear layer yields them,
\* a single-logit tensor, and the logits of three classes
LogitsArgs == {<<2, -2>>, <<0, 0>>, <<-1, 1>>, <<0, 1>>, <<1>>, <<0, 0, 0>>, <<1, 0, -1>>}

FrameArgs ==
    {[frame_index |-> 1, timestamp_ms |-> None],
     [frame_index |-> 2, timestamp_ms |-> Some(40)]}

BatchArgs ==
    {[start_frame |-> st, logits_sequence |-> sq, fps |-> f] :
        st \in {5},
        sq \in {<<<<2, -2>>>>, <<<<0, 0>>, <<2, -2>>>>, <<<<-1, 1>>, <<1>>>>},
        f \in {None, Some(60), Some(0)}}

\* fed after a call with this result on a timeline that held before
\* entries: the call made one add_frame call for each entry it appended,
\* and one more when it ended in an add_frame that raised
Counted(log, result, before) ==
    [log EXCEPT !.timeline = @ + Len(result.self.frame_data) - before
                               + (IF result.outcome = "raised" THEN 1 ELSE 0),
                !.raised = @ + (IF result.outcome = "raised" THEN 1 ELSE 0)]

TimelineInit ==
    /\ tlArgs \in TimelineCtorArgs
    /\ timeline_analyzer =
         FrameProbabilityTimeline(tlArgs.fps, tlArgs.anomaly_threshold,
                                  tlArgs.smoothing_window)
    /\ forensics_analyzer = None /\ fxArgs = None
    /\ fed = [timeline |-> 0, raised |-> 0, forensics |-> 0]
    /\ ThreatIdle /\ ClassifierIdle /\ AfterAnalyzersIdle

\* timeline.add_frame(frame_index, logits, timestamp_ms)
AddFrame ==
    /\ forensics_analyzer = None
    /\ fed.timeline < MaxFrames
    /\ \E a \in FrameArgs, logits \in LogitsArgs :
          /\ timeline_analyzer' =
                add_frame(timeline_analyzer, a.frame_index, logits, a.timestamp_ms).self
          /\ fed' = Counted(fed, add_frame(timeline_analyzer, a.frame_index, logits,
                                           a.timestamp_ms),
                            Len(timeline_analyzer.frame_data))
    /\ UNCHANGED <<threatVars, classifierVars, tlArgs, forensics_analyzer, fxArgs>>
    /\ UNCHANGED afterAnalyzers

\* timeline.add_batch(start_frame, logits_sequence, fps)
AddBatch ==
    /\ forensics_analyzer = None
    /\ \E b \in BatchArgs :
          /\ fed.timeline + Len(b.logits_sequence) <= MaxFrames
          /\ timeline_analyzer' =
                add_batch(timeline_analyzer, b.start_frame, b.logits_sequence, b.fps).self
          /\ fed' = Counted(fed, add_batch(timeline_analyzer, b.start_frame,
                                           b.logits_sequence, b.fps),
                            Len(timeline_analyzer.frame_data))
    /\ UNCHANGED <<threatVars, classifierVars, tlArgs, forensics_analyzer, fxArgs>>
    /\ UNCHANGED afterAnalyzers

\* timeline.reset()
Reset ==
    /\ forensics_analyzer = None
    /\ timeline_analyzer' = reset(timeline_analyzer)
    /\ fed' = [fed EXCEPT !.timeline = 0, !.raised = 0]
    /\ UNCHANGED <<threatVars, classifierVars, tlArgs, forensics_analyzer, fxArgs>>
    /\ UNCHANGED afterAnalyzers

TimelineNext == AddFrame \/ AddBatch \/ Reset

TimelineSpec == TimelineInit /\ [][TimelineNext]_vars

---------------------------------------------------------------------------
(* Claims about the timeline *)

Entries == timeline_analyzer.frame_data

\* |fake_probability of entry i - fake_probability of entry i-1| as diff/den
JumpNum(i) ==
    Abs(Entries[i].fake_probability.num * Entries[i - 1].fake_probability.den
        - Entries[i - 1].fake_probability.num * Entries[i].fake_probability.den)
JumpDen(i) == Entries[i].fake_probability.den * Entries[i - 1].fake_probability.den

JumpExceeds(i) ==
    i > 1 /\ 100 * JumpNum(i) > timeline_analyzer.anomaly_threshold * JumpDen(i)

FlagsFollowJumps ==
    \A i \in 1..Len(Entries) :
        /\ Entries[i].is_anomaly <=> JumpExceeds(i)
        /\ IF JumpExceeds(i)
           THEN Entries[i].anomaly_score = Frac(JumpNum(i), JumpDen(i))
           ELSE Entries[i].anomaly_score.num = 0

AppendsOneEntry ==
    AddFrame =>
        /\ Len(timeline_analyzer'.frame_data) = Len(Entries) + 1
        /\ SubSeq(timeline_analyzer'.frame_data, 1, Len(Entries)) = Entries

\* what every add_frame call does: it appends one entry, or it raises on a
\* timeline whose fps is 0 and leaves the entries as they were
AppendsOneEntryOrRaises ==
    AddFrame =>
        \/ AppendsOneEntry /\ fed'.raised = fed.raised
        \/ /\ timeline_analyzer.fps = 0
           /\ fed'.raised = fed.raised + 1
           /\ timeline_analyzer' = timeline_analyzer

AnomalyFlagsOfReturnedCalls == [](FlagsFollowJumps) /\ [][AppendsOneEntryOrRaises]_vars

\* C11: an entry is flagged is_anomaly exactly when it is not the first entry
\* and its fake probability differs from that of the entry appended just
\* before it by more than anomaly_threshold, its anomaly_score being that
\* difference when flagged and 0 otherwise; every add_frame call appends
\* exactly one entry at the end and leaves the earlier entries as they were.
C11_AnomalyFlags == [](FlagsFollowJumps) /\ [][AppendsOneEntry]_vars

\* three entries: the second jumps by exactly the threshold (0.5) and is not
\* flagged, the third jumps by more and is flagged
ThresholdJumpNotFlagged ==
    /\ Len(Entries) = 3
    /\ 100 * JumpNum(2) = timeline_analyzer.anomaly_threshold * JumpDen(2)
    /\ ~Entries[2].is_anomaly
    /\ Entries[3].is_anomaly
    /\ Entries[3].anomaly_score.num > 0

InUnitInterval(p) == p.den > 0 /\ 0 <= p.num /\ p.num <= p.den

\* C12: in every entry of a timeline, whatever add_frame and add_batch calls
\* produced it, fake_probability + real_probability = 1 and both
\* probabilities lie in [0, 1].
C12_ProbabilitiesSumToOne ==
    \A i \in 1..Len(Entries) :
        LET f == Entries[i].fake_probability
            r == Entries[i].real_probability
        IN  /\ f.num * r.den + r.num * f.den = f.den * r.den
            /\ InUnitInterval(f)
            /\ InUnitInterval(r)

\* what holds of every entry: both probabilities lie in [0, 1] and their
\* sum is at most 1; it is 1 for the logits of one or two classes
ProbabilitiesSumToAtMostOne ==
    \A i \in 1..Len(Entries) :
        LET f == Entries[i].fake_probability
            r == Entries[i].real_probability
        IN  /\ f.num * r.den + r.num * f.den <= f.den * r.den
            /\ InUnitInterval(f)
            /\ InUnitInterval(r)

\* F.softmax of at most two classes, then the two stored probabilities
TwoClassSumsToOne ==
    \A logits \in {l \in LogitsArgs : Len(l) <= 2} :
        LET e == add_frame(FrameProbabilityTimeline(30, 30, 5), 0, logits, None).self.frame_data[1]
        IN  e.fake_probability.num * e.real_probability.den
                + e.real_probability.num * e.fake_probability.den
            = e.fake_probability.den * e.real_probability.den

---------------------------------------------------------------------------
(* DeepfakeForensicsAnalyzer and its four sub-analyzers (forensics.py)     *)
(*                                                                         *)
(* A frame is what the OpenCV detectors and measures make of the image:    *)
(* face (is a face found), eyes (eyes found in the face), ear (the mean    *)
(* eye aspect ratio of the first two eyes, in hundredths) and id (stands   *)
(* for the pixels: histogram, gray image, blockiness, spectrum).           *)

EAR_THRESHOLD == 20
CONSECUTIVE_FRAMES == 2

FaceConsistencyAnalyzer == [face_features |-> <<>>, face_sizes |-> <<>>, face_positions |-> <<>>]

EyeBlinkDetector ==
    [ear_history |-> <<>>, blink_count |-> 0, consecutive_closed |-> 0, frame_count |-> 0]

TemporalStabilityAnalyzer == [prev_frame |-> None, flow_magnitudes |-> <<>>, ssim_values |-> <<>>]

CompressionArtifactDetector == [blockiness_values |-> <<>>, frequency_anomalies |-> <<>>]

\* DeepfakeForensicsAnalyzer(fps)
DeepfakeForensicsAnalyzer(fps) ==
    [fps |-> fps,
     face_analyzer |-> FaceConsistencyAnalyzer,
     blink_detector |-> EyeBlinkDetector,
     stability_analyzer |-> TemporalStabilityAnalyzer,
     artifact_detector |-> CompressionArtifactDetector,
     frame_count |-> 0]

\* FaceConsistencyAnalyzer.add_frame
face_add_frame(self, frame) ==
    IF ~frame.face THEN self
    ELSE [self EXCEPT !.face_features = Append(@, frame.id),
                      !.face_sizes = Append(@, frame.id),
                      !.face_positions = Append(@, frame.id)]

\* mean of ear_history[-CONSECUTIVE_FRAMES-2:-CONSECUTIVE_FRAMES], times 2
PrevOpenTwice(h) == h[Len(h) - 3] + h[Len(h) - 2]

\* EyeBlinkDetector.add_frame
blink_add_frame(self, frame) ==
    LET counted == [self EXCEPT !.frame_count = @ + 1]
    IN  IF ~frame.face THEN counted
        ELSE IF frame.eyes < 2
        THEN LET closed == [counted EXCEPT !.ear_history = Append(@, 30),
                                           !.consecutive_closed = @ + 1]
             IN  IF /\ closed.consecutive_closed >= CONSECUTIVE_FRAMES
                    /\ Len(closed.ear_history) >= CONSECUTIVE_FRAMES + 2
                    \* prev_open > EAR_THRESHOLD * 1.5
                    /\ PrevOpenTwice(closed.ear_history) > 3 * EAR_THRESHOLD
                 THEN [closed EXCEPT !.blink_count = @ + 1, !.consecutive_closed = 0]
                 ELSE closed
        ELSE LET seen == [counted EXCEPT !.ear_history = Append(@, frame.ear)]
             IN  IF frame.ear < EAR_THRESHOLD
                 THEN [seen EXCEPT !.consecutive_closed = @ + 1]
                 ELSE IF seen.consecutive_closed >= CONSECUTIVE_FRAMES
                      THEN [seen EXCEPT !.blink_count = @ + 1, !.consecutive_closed = 0]
                      ELSE [seen EXCEPT !.consecutive_closed = 0]

\* TemporalStabilityAnalyzer.add_frame
stability_add_frame(self, frame) ==
    IF self.prev_frame = None THEN [self EXCEPT !.prev_frame = Some(frame.id)]
    ELSE [self EXCEPT !.flow_magnitudes = Append(@, <<self.prev_frame[1], frame.id>>),
                      !.ssim_values = Append(@, <<self.prev_frame[1], frame.id>>),
                      !.prev_frame = Some(frame.id)]

\* CompressionArtifactDetector.add_frame
artifact_add_frame(self, frame) ==
    [self EXCEPT !.blockiness_values = Append(@, frame.id),
                 !.frequency_anomalies = Append(@, frame.id)]

\* DeepfakeForensicsAnalyzer.reset: the four sub-analyzers' reset methods
\* restore what their constructors set; fps is not touched
forensics_reset(self) ==
    [self EXCEPT !.face_analyzer = FaceConsistencyAnalyzer,
                 !.blink_detector = EyeBlinkDetector,
                 !.stability_analyzer = TemporalStabilityAnalyzer,
                 !.artifact_detector = CompressionArtifactDetector,
                 !.frame_count = 0]

\* DeepfakeForensicsAnalyzer.add_frame
forensics_add_frame(self, frame) ==
    [self EXCEPT !.frame_count = @ + 1,
                 !.face_analyzer = face_add_frame(@, frame),
                 !.blink_detector = blink_add_frame(@, frame),
                 !.stability_analyzer = stability_add_frame(@, frame),
                 !.artifact_detector = artifact_add_frame(@, frame)]

RECURSIVE ForensicsAddEach(_, _)
\* for frame in frames: self.add_frame(frame)
ForensicsAddEach(self, frames) ==
    IF frames = <<>> THEN self
    ELSE ForensicsAddEach(forensics_add_frame(self, Head(frames)), Tail(frames))

\* compute_metrics: the fields that do not depend on pixel values.
\* eye_blink_rate is blink_count / (frame_count / fps), in blinks per
\* second.  compute_blink_rate(self.fps) divides the detector's frame_count
\* by fps once a frame was counted (line 276): with fps 0 that raises
\* ZeroDivisionError.
compute_metrics(self) ==
    IF self.blink_detector.frame_count # 0 /\ self.fps = 0
    THEN [outcome |-> "raised", value |-> "ZeroDivisionError"]
    ELSE [outcome |-> "returned",
          value |->
             [frame_count |-> self.frame_count,
              faces_detected |-> Len(self.face_analyzer.face_features),
              eye_blink_rate |->
                 IF self.blink_detector.frame_count = 0 THEN Frac(0, 1)
                 ELSE Frac(self.blink_detector.blink_count * self.fps,
                           self.blink_detector.frame_count)]]

\* the outcome and value of a call that ends in compute_metrics(), and the
\* analyzer it leaves
ReturnMetrics(self) ==
    [outcome |-> compute_metrics(self).outcome, value |-> compute_metrics(self).value,
     self |-> self]

\* DeepfakeForensicsAnalyzer.analyze_frames
analyze_frames(self, frames) == ReturnMetrics(ForensicsAddEach(forensics_reset(self), frames))

\* DeepfakeForensicsAnalyzer.analyze_video; a video is what cv2.VideoCapture
\* makes of the path (opened, fps, frames).  When the capture does not
\* open, ValueError leaves the analyzer reset.
analyze_video(self, video, max_frames) ==
    LET cleared == forensics_reset(self)
        total == IF max_frames = None THEN Len(video.frames)
                 ELSE Min(Len(video.frames), max_frames[1])
    IN  IF ~video.opened
        THEN [outcome |-> "raised", value |-> "ValueError", self |-> cleared]
        ELSE ReturnMetrics(
                 ForensicsAddEach(
                     \* cap.get(cv2.CAP_PROP_FPS) or 30.0
                     [cleared EXCEPT !.fps = IF video.fps = 0 THEN 30 ELSE video.fps],
                     SubSeq(video.frames, 1, total)))

---------------------------------------------------------------------------
(* The two stateful analyzers of one analysis session as a state machine:  *)
(* frames of a video are fed to a timeline and to a forensics analyzer,    *)
(* which are reset and reused.  fed counts, per analyzer, the add_frame    *)
(* calls made since its construction or last reset, and those of the       *)
(* timeline's calls that raised.                                           *)

NoFaceFrame == [id |-> 1, face |-> FALSE, eyes |-> 0, ear |-> 0]
OneEyeFrame == [id |-> 2, face |-> TRUE, eyes |-> 1, ear |-> 0]
OpenEyesFrame == [id |-> 3, face |-> TRUE, eyes |-> 2, ear |-> 35]
ClosedEyesFrame == [id |-> 4, face |-> TRUE, eyes |-> 2, ear |-> 10]

Frames == {NoFaceFrame, OneEyeFrame, OpenEyesFrame, ClosedEyesFrame}

\* what cv2.VideoCapture makes of a path; fps 0 is a container without a rate
Videos ==
    {[opened |-> FALSE, fps |-> 0, frames |-> <<>>],
     [opened |-> TRUE, fps |-> 60, frames |-> <<OpenEyesFrame, ClosedEyesFrame>>],
     [opened |-> TRUE, fps |-> 0, frames |-> <<OneEyeFrame>>]}

FeedLogits == {<<2, -2>>, <<0, 0>>}

AnalyzersInit ==
    /\ tlArgs \in TimelineCtorArgs
    /\ timeline_analyzer =
         FrameProbabilityTimeline(tlArgs.fps, tlArgs.anomaly_threshold,
                                  tlArgs.smoothing_window)
    /\ fxArgs \in {[fps |-> 30], [fps |-> 0]}
    /\ forensics_analyzer = DeepfakeForensicsAnalyzer(fxArgs.fps)
    /\ fed = [timeline |-> 0, raised |-> 0, forensics |-> 0]
    /\ ThreatIdle /\ ClassifierIdle /\ AfterAnalyzersIdle

\* timeline.add_frame(i, frame_logits), as extract_frame_probabilities_from_model feeds it
TimelineFeed ==
    /\ forensics_analyzer # None
    /\ fed.timeline < MaxFrames
    /\ \E logits \in FeedLogits :
          /\ timeline_analyzer' =
                add_frame(timeline_analyzer, fed.timeline, logits, None).self
          /\ fed' = Counted(fed, add_frame(timeline_analyzer, fed.timeline, logits, None),
                            Len(timeline_analyzer.frame_data))
    /\ UNCHANGED <<threatVars, classifierVars, tlArgs, forensics_analyzer, fxArgs>>
    /\ UNCHANGED afterAnalyzers

\* timeline.add_batch(start_frame, logits_sequence, fps)
TimelineFeedBatch ==
    /\ forensics_analyzer # None
    /\ \E sq \in {<<<<0, 0>>>>, <<<<2, -2>>, <<0, 0>>>>}, f \in {None, Some(60), Some(0)} :
          /\ fed.timeline + Len(sq) <= MaxFrames
          /\ timeline_analyzer' = add_batch(timeline_analyzer, fed.timeline, sq, f).self
          /\ fed' = Counted(fed, add_batch(timeline_analyzer, fed.timeline, sq, f),
                            Len(timeline_analyzer.frame_data))
    /\ UNCHANGED <<threatVars, classifierVars, tlArgs, forensics_analyzer, fxArgs>>
    /\ UNCHANGED afterAnalyzers

\* timeline.reset()
TimelineReset ==
    /\ forensics_analyzer # None
    /\ timeline_analyzer' = reset(timeline_analyzer)
    /\ fed' = [fed EXCEPT !.timeline = 0, !.raised = 0]
    /\ UNCHANGED <<threatVars, classifierVars, tlArgs, forensics_analyzer, fxArgs>>
    /\ UNCHANGED afterAnalyzers

\* forensics_analyzer.add_frame(frame)
ForensicsAddFrame ==
    /\ forensics_analyzer # None
    /\ forensics_analyzer.frame_count < MaxFrames
    /\ \E frame \in Frames :
          forensics_analyzer' = forensics_add_frame(forensics_analyzer, frame)
    /\ fed' = [fed EXCEPT !.forensics = @ + 1]
    /\ UNCHANGED <<threatVars, classifierVars, timeline_analyzer, tlArgs, fxArgs>>
    /\ UNCHANGED afterAnalyzers

\* forensics_analyzer.analyze_frames(frames)
ForensicsAnalyzeFrames ==
    /\ forensics_analyzer # None
    /\ \E frames \in {<<OpenEyesFrame>>, <<ClosedEyesFrame, NoFaceFrame>>} :
          /\ forensics_analyzer' = analyze_frames(forensics_analyzer, frames).self
          /\ fed' = [fed EXCEPT !.forensics = Len(frames)]
    /\ UNCHANGED <<threatVars, classifierVars, timeline_analyzer, tlArgs, fxArgs>>
    /\ UNCHANGED afterAnalyzers

\* forensics_analyzer.analyze_video(video_path, max_frames)
ForensicsAnalyzeVideo ==
    /\ forensics_analyzer # None
    /\ \E video \in Videos, max_frames \in {None, Some(1)} :
          /\ forensics_analyzer' =
                analyze_video(forensics_analyzer, video, max_frames).self
          /\ fed' = [fed EXCEPT !.forensics =
                        IF ~video.opened THEN 0
                        ELSE IF max_frames = None THEN Len(video.frames)
                        ELSE Min(Len(video.frames), max_frames[1])]
    /\ UNCHANGED <<threatVars, classifierVars, timeline_analyzer, tlArgs, fxArgs>>
    /\ UNCHANGED afterAnalyzers

\* forensics_analyzer.reset()
ForensicsReset ==
    /\ forensics_analyzer # None
    /\ forensics_analyzer' = forensics_reset(forensics_analyzer)
    /\ fed' = [fed EXCEPT !.forensics = 0]
    /\ UNCHANGED <<threatVars, classifierVars, timeline_analyzer, tlArgs, fxArgs>>
    /\ UNCHANGED afterAnalyzers

AnalyzersNext ==
    \/ TimelineFeed \/ TimelineFeedBatch \/ TimelineReset
    \/ ForensicsAddFrame \/ ForensicsAnalyzeFrames \/ ForensicsAnalyzeVideo
    \/ ForensicsReset

AnalyzersSpec == AnalyzersInit /\ [][AnalyzersNext]_vars

---------------------------------------------------------------------------
(* Claims about reset and reuse of the stateful analyzers *)

FreshTimeline ==
    FrameProbabilityTimeline(tlArgs.fps, tlArgs.anomaly_threshold, tlArgs.smoothing_window)

FreshForensics == DeepfakeForensicsAnalyzer(fxArgs.fps)

\* a clip with one blink: open, closed, closed, open
BlinkClip == <<OpenEyesFrame, ClosedEyesFrame, ClosedEyesFrame, OpenEyesFrame>>

\* the timeline left by reset() answers the next add_frame as a new one does
TimelineResetLikeFresh ==
    TimelineReset =>
        \A logits \in FeedLogits, i \in 0..1 :
            add_frame(timeline_analyzer', i, logits, None)
                = add_frame(FreshTimeline, i, logits, None)

\* the forensics analyzer left by reset() reports the metrics of the next
\* clip as a new one does
ForensicsResetLikeFresh ==
    ForensicsReset =>
        compute_metrics(ForensicsAddEach(forensics_analyzer', BlinkClip))
            = compute_metrics(ForensicsAddEach(FreshForensics, BlinkClip))

\* C13: after reset(), a FrameProbabilityTimeline and a
\* DeepfakeForensicsAnalyzer behave exactly like instances freshly built
\* with the same constructor arguments, whatever calls came before.
C13_ResetLikeFresh == [][TimelineResetLikeFresh /\ ForensicsResetLikeFresh]_vars


\* C14: the frame count an analyzer reports (frame_count of the forensics
\* metrics, total_frames of the timeline) equals the number of add_frame
\* calls made on it since its construction or last reset: N >= 1 frames fed
\* twice without a reset count 2N, and N again once reset() came between.
\* A timeline no frame was added to since then has no statistics to report.
C14_CountsSinceReset ==
    forensics_analyzer # None =>
        /\ (fed.timeline >= 1) =>
               /\ "total_frames" \in DOMAIN get_temporal_stats(timeline_analyzer)
               /\ get_temporal_stats(timeline_analyzer).total_frames = fed.timeline
        /\ (fed.timeline = 0) => DOMAIN get_temporal_stats(timeline_analyzer) = {}
        /\ compute_metrics(forensics_analyzer).outcome = "returned"
        /\ compute_metrics(forensics_analyzer).value.frame_count = fed.forensics

\* what holds instead: the timeline holds one entry for each add_frame call
\* since its last reset that returned, the forensics analyzer has counted
\* every call, and its metrics report that count unless its fps is 0
CountsOfReturnedCalls ==
    forensics_analyzer # None =>
        /\ Len(timeline_analyzer.frame_data) = fed.timeline - fed.raised
        /\ forensics_analyzer.frame_count = fed.forensics
        /\ IF compute_metrics(forensics_analyzer).outcome = "returned"
           THEN compute_metrics(forensics_analyzer).value.frame_count = fed.forensics
           ELSE forensics_analyzer.fps = 0 /\ fed.forensics > 0

\* the same frame fed twice to both analyzers without a reset
FedTwiceWithoutReset ==
    /\ fed = [timeline |-> 2, raised |-> 0, forensics |-> 2]
    /\ forensics_analyzer.artifact_detector.blockiness_values = <<3, 3>>
    /\ compute_metrics(forensics_analyzer).value.frame_count = 2
    /\ get_temporal_stats(timeline_analyzer).total_frames = 2
    /\ Entries[1].fake_probability = Entries[2].fake_probability

---------------------------------------------------------------------------
(* AudioAnalyzer's features, LipSyncAnalyzer.analyze_sync and              *)
(* AudioVideoAnalyzer.analyze (multimodal.py)                              *)
(*                                                                         *)
(* Decoded audio is its number of samples and its signal, what the         *)
(* samples hold: zero_crossings, the sample indexes after which the sign   *)
(* changes; pitches, the number of analysis frames in which the            *)
(* autocorrelation finds a pitch between 50 and 500 Hz; pitch_mean, their  *)
(* mean in Hz; pitch_cv, their standard deviation over their mean, in      *)
(* millionths.  A video is what cv2.VideoCapture makes of the path:        *)
(* opened, fps, readable (the frames cap.read yields), still (its mouth     *)
(* region never moves) and, when it moves, xcorr, what the                 *)
(* cross-correlation of its mouth movement with the audio energy finds:    *)
(* max_corr in hundredths, lag in frames, low_windows (the starts of the   *)
(* windows whose local correlation is NaN or below 0.2).  Scores are in    *)
(* hundredths of a point, to the nearest; the confidence of an analysis    *)
(* is in whole points; a list of energies is given by its length.          *)

\* np.clip(x, lo, hi)
Clip(x, lo, hi) == Max(lo, Min(hi, x))

SumSeq(s) == SumOver(DOMAIN s, s)

\* the signal of silence: no sign change and no pitch
Flat == [zero_crossings |-> <<>>, pitches |-> 0, pitch_mean |-> 0, pitch_cv |-> 0]

\* 2048 samples of a tone of 120 Hz: the same pitch in both analysis
\* frames, a sign change every 66 or 67 samples
Voice ==
    [zero_crossings |->
        <<66, 132, 199, 266, 332, 399, 466, 532, 599, 666, 732, 799, 866, 932, 999,
          1066, 1132, 1199, 1266, 1332, 1399, 1466, 1532, 1599, 1666, 1732, 1799, 1866,
          1932, 1999>>,
     pitches |-> 2, pitch_mean |-> 120, pitch_cv |-> 0]

InvalidFeatures(message) ==
    [duration_seconds |-> Frac(0, 1), sample_rate |-> 0, pitch_mean |-> 0,
     pitch_variance_score |-> 5000, jitter_score |-> 5000, energy_profile |-> 0,
     is_valid |-> FALSE, error_message |-> Some(message)]

\* num / den to the nearest integer
Nearest(num, den) == (2 * num + den) \div (2 * den)

\* compute_pitch_features(audio, sample_rate): pitch_mean and
\* pitch_variance_score.  Frames start at range(0, len(audio) - 1024, 512);
\* a frame is skipped when max_lag = sample_rate // 50 exceeds the 1024
\* lags of its autocorrelation or the search region is empty.
compute_pitch_features(samples, sample_rate, signal) ==
    LET frames == IF samples > 1024 THEN (samples - 1024 + 511) \div 512 ELSE 0
        searched == /\ sample_rate \div 50 <= 1024
                    /\ sample_rate \div 500 < sample_rate \div 50
        pitches == IF searched THEN Min(signal.pitches, frames) ELSE 0
        cv == signal.pitch_cv
        variance_score ==
            IF cv < 50000 THEN 7000 + Nearest((50000 - cv) * 6, 100)
            ELSE IF cv > 300000 THEN 5000 + Nearest(cv - 300000, 100)
            ELSE Nearest(cv, 100)
    IN  IF pitches = 0 THEN [pitch_mean |-> 0, pitch_variance_score |-> 5000]
        ELSE [pitch_mean |-> signal.pitch_mean,
              pitch_variance_score |-> Clip(variance_score, 0, 10000)]

\* the periods of compute_jitter: zero_crossings[i + 2] - zero_crossings[i]
\* for i in range(0, len(zero_crossings) - 2, 2), kept when 32 < period < 640
JitterPeriods(zero_crossings) ==
    LET every == [k \in 1..((Len(zero_crossings) - 1) \div 2) |->
                     zero_crossings[2 * k + 1] - zero_crossings[2 * k - 1]]
    IN  SelectSeq(every, LAMBDA period : 32 < period /\ period < 640)

\* compute_jitter(audio, sample_rate): jitter_score; jitter is the mean
\* absolute difference of consecutive periods over the mean period
compute_jitter(signal) ==
    LET periods == JitterPeriods(signal.zero_crossings)
        n == Len(periods)
        diffs == SumSeq([k \in 1..(n - 1) |-> Abs(periods[k + 1] - periods[k])])
        total == SumSeq(periods)
        \* jitter = (diffs / (n - 1)) / (total / n + 1e-6), times factor
        jitter(factor) == Nearest(diffs * n * factor, (n - 1) * total)
    IN  IF Len(signal.zero_crossings) < 4 THEN 5000
        ELSE IF n < 3 THEN 5000
        \* jitter < 0.001, which the 1e-6 of the divisor makes true at equality
        ELSE IF diffs * n * 1000 <= (n - 1) * total THEN 8000
        \* jitter > 0.02
        ELSE IF diffs * n * 50 > (n - 1) * total THEN Min(10000, 5000 + jitter(100000))
        ELSE Clip(jitter(250000), 0, 10000)

\* compute_energy_profile(audio): 50 segments, none when a segment is empty
compute_energy_profile(samples) == IF samples \div 50 = 0 THEN 0 ELSE 50

\* the AudioFeatures of decoded audio (lines 414-436)
ValidFeatures(samples, sample_rate, signal) ==
    LET pitch == compute_pitch_features(samples, sample_rate, signal)
    IN  [duration_seconds |-> Frac(samples, sample_rate), sample_rate |-> sample_rate,
         pitch_mean |-> pitch.pitch_mean,
         pitch_variance_score |-> pitch.pitch_variance_score,
         jitter_score |-> compute_jitter(signal),
         energy_profile |-> compute_energy_profile(samples),
         is_valid |-> TRUE, error_message |-> None]

\* the body of the try block of analyze_audio after load_audio_data:
\* what it returns or raises (there is no except clause)
analyze_loaded(loaded) ==
    IF loaded.audio = None \/ loaded.audio = Some(0)
    THEN [outcome |-> "returned", value |-> InvalidFeatures("Failed to load audio data")]
    ELSE IF loaded.sample_rate = 0
    THEN [outcome |-> "raised", value |-> "ZeroDivisionError"]
    ELSE [outcome |-> "returned",
          value |-> ValidFeatures(loaded.audio[1], loaded.sample_rate, loaded.signal)]

\* np.correlate and np.corrcoef for a mouth region that never moves
\* (mouth_norm is 0 everywhere): the cross-correlation is 0 at every lag,
\* np.argmax takes the first, lag = 0 - target_len + 1, and the local
\* correlation of each window range(0, target_len - window_size,
\* window_size // 2) is NaN; a window is named by its first index
StillCorrelation(target_len) ==
    LET window_size == Max(1, target_len \div 10)
        step == window_size \div 2
    IN  [max_corr |-> 0, lag |-> -(target_len - 1),
         low_windows |->
            IF step = 0 THEN <<>>
            ELSE [k \in 1..((target_len - window_size + step - 1) \div step)
                    |-> step * (k - 1)]]

\* analyze_sync(video_path, audio_energy) with max_frames = 300: the
\* LipSyncFeatures returned, or the ValueError of range() with the step
\* window_size // 2 = 0, which a target_len below 20 gives
analyze_sync(video, audio_energy) ==
    LET fps == IF video.fps = 0 THEN 30 ELSE video.fps
        frames == Min(video.readable, 300)
        compared == audio_energy > 0 /\ frames > 0
        target_len == Min(audio_energy, frames)
        window_size == Max(1, target_len \div 10)
        xcorr == IF video.still THEN StillCorrelation(target_len) ELSE video.xcorr
        max_corr == IF compared THEN xcorr.max_corr ELSE 0
        lag == IF compared THEN xcorr.lag ELSE 0
        \* min(50, abs(lag) / fps * 50) when abs(lag) > fps * 0.5
        lag_penalty == IF 2 * Abs(lag) > fps THEN Min(5000, (Abs(lag) * 5000) \div fps)
                       ELSE 0
        sync_score == Max(0, max_corr * 100 - lag_penalty)
    IN  IF frames = 0
        THEN [outcome |-> "returned",
              value |-> [mouth_movement_energy |-> 0, audio_energy |-> audio_energy,
                         correlation |-> 0, sync_score |-> 5000, lag_frames |-> 0,
                         mismatch_regions |-> <<>>]]
        ELSE IF compared /\ window_size \div 2 = 0
        THEN [outcome |-> "raised", value |-> "ValueError"]
        ELSE [outcome |-> "returned",
              value |-> [mouth_movement_energy |-> frames, audio_energy |-> audio_energy,
                         correlation |-> max_corr,
                         sync_score |-> Clip(sync_score, 0, 10000), lag_frames |-> lag,
                         mismatch_regions |-> IF compared THEN xcorr.low_windows
                                              ELSE <<>>]]

\* a slip: the bonus already at 50 samples
AnalyzeBonusFrom50(video, audio_result) ==
    LET audio_features == audio_result.value
        runs_sync == audio_features.is_valid /\ audio_features.energy_profile > 0
        sync == analyze_sync(video, audio_features.energy_profile)
        audio_spoof_score ==
            IF audio_features.is_valid
            THEN (audio_features.pitch_variance_score + audio_features.jitter_score) \div 2
            ELSE 5000
        lip_sync_score == IF runs_sync THEN sync.value.sync_score ELSE 5000
        confidence == (IF audio_features.is_valid THEN 80 ELSE 30)
                        + (IF runs_sync /\ sync.value.mouth_movement_energy >= 50
                           THEN 20 ELSE 0)
    IN  IF audio_result.outcome = "raised" THEN audio_result
        ELSE IF runs_sync /\ sync.outcome = "raised" THEN sync
        ELSE [outcome |-> "returned",
              value |-> [audio_features |-> audio_features,
                         lip_sync_features |-> IF runs_sync THEN Some(sync.value) ELSE None,
                         audio_spoof_score |-> audio_spoof_score,
                         lip_sync_score |-> lip_sync_score,
                         combined_score |->
                            Clip(((10000 - audio_spoof_score) * 4 + lip_sync_score * 6)
                                    \div 10, 0, 10000),
                         confidence |-> Min(confidence, 100)]]

\* analyze(video_path): the MultiModalAnalysis returned, or what analyze_audio
\* or analyze_sync raises; audio_result is what analyze_audio returns or raises for
\* the path
analyze(video, audio_result) ==
    LET audio_features == audio_result.value
        \* analyze_sync runs when the audio is valid and has an energy profile
        runs_sync == audio_features.is_valid /\ audio_features.energy_profile > 0
        sync == analyze_sync(video, audio_features.energy_profile)
        lip_sync_features == IF runs_sync THEN Some(sync.value) ELSE None
        \* pitch_variance_score * 0.5 + jitter_score * 0.5
        audio_spoof_score ==
            IF audio_features.is_valid
            THEN (audio_features.pitch_variance_score + audio_features.jitter_score) \div 2
            ELSE 5000
        lip_sync_score == IF runs_sync THEN sync.value.sync_score ELSE 5000
        \* (100 - audio_spoof_score) * 0.4 + lip_sync_score * 0.6
        combined_score == ((10000 - audio_spoof_score) * 4 + lip_sync_score * 6) \div 10
        base == IF audio_features.is_valid THEN 80 ELSE 30
        \* len(lip_sync_features.mouth_movement_energy) > 50
        confidence == IF runs_sync /\ sync.value.mouth_movement_energy > 50
                      THEN base + 20 ELSE base
    IN  IF audio_result.outcome = "raised" THEN audio_result
        ELSE IF runs_sync /\ sync.outcome = "raised" THEN sync
        ELSE [outcome |-> "returned",
              value |-> [audio_features |-> audio_features,
                         lip_sync_features |-> lip_sync_features,
                         audio_spoof_score |-> audio_spoof_score,
                         lip_sync_score |-> lip_sync_score,
                         combined_score |-> Clip(combined_score, 0, 10000),
                         confidence |-> Min(confidence, 100)]]

\* to_dict(analysis) without analysis_details: the fields of the analysis
\* as they are
to_dict(analysis) ==
    LET result ==
            [audio_spoof_score |-> analysis.audio_spoof_score,
             lip_sync_score |-> analysis.lip_sync_score,
             combined_score |-> analysis.combined_score,
             confidence |-> analysis.confidence,
             audio_features |->
                [is_valid |-> analysis.audio_features.is_valid,
                 duration_seconds |-> analysis.audio_features.duration_seconds,
                 pitch_mean |-> analysis.audio_features.pitch_mean,
                 pitch_variance_score |-> analysis.audio_features.pitch_variance_score,
                 jitter_score |-> analysis.audio_features.jitter_score]]
    IN  IF analysis.lip_sync_features = None THEN result
        ELSE [lip_sync_features |->
                 [correlation |-> analysis.lip_sync_features[1].correlation,
                  sync_score |-> analysis.lip_sync_features[1].sync_score,
                  lag_frames |-> analysis.lip_sync_features[1].lag_frames,
                  mismatch_regions |-> analysis.lip_sync_features[1].mismatch_regions]]
             @@ result

\* to_dict(analysis): the keys of the dict
to_dict_keys(analysis) == DOMAIN to_dict(analysis) \cup {"analysis_details"}

---------------------------------------------------------------------------
(* ExplainabilityPipeline.analyze_video (integration.py)                   *)
(*                                                                         *)
(* One run of analyze_video, stage by stage.  pipelineCall holds the       *)
(* arguments and what cv2 makes of video_path; pipeline holds the local    *)
(* variables of the run, its position pc and, in trace, the stages passed  *)
(* with how each ended (ok, raised, skipped).  The video is a still clip:  *)
(* every frame is the same picture of a face with two open eyes, and the   *)
(* detector gives every frame the fake probability 0.9.  What the          *)
(* artifact detector measures on that picture is part of the video:        *)
(* blockiness and frequency_anomaly, in hundredths.  The frames a caller   *)
(* passes are frames of the video.  The outputs of the Grad-CAM, timeline  *)
(* and forensics stages are what their callees return for such a clip;     *)
(* the multimodal stage is computed by analyze and to_dict,                *)
(* classification and threat assessment by ClassifyValue and AssessValue.  *)
(* A list of frames is its length; has_model says that the pipeline has a  *)
(* model and the call an input_tensor, whose shape[1] is seq_length; audio *)
(* is what analyze_audio makes of the file's audio track.  Scores are in   *)
(* hundredths of a point.                                                  *)

StageOrder ==
    <<"start", "gradcam", "timeline", "forensics", "multimodal", "classification",
      "threat", "ethics", "done">>

NextStage(stage) ==
    StageOrder[(CHOOSE i \in 1..Len(StageOrder) : StageOrder[i] = stage) + 1]

Advance(L, outcome) ==
    [L EXCEPT !.pc = NextStage(L.pc), !.trace = Append(@, <<L.pc, outcome>>)]

\* lines 153-168: the result containers before any stage ran
InitialLocals ==
    [pc |-> "start", trace |-> <<>>, frames |-> None, video_info |-> EmptyDict,
     gradcam_images |-> <<>>, gradcam_summary |-> EmptyDict,
     timeline_data |-> [labels |-> <<>>, datasets |-> <<>>], timeline_stats |-> EmptyDict,
     forensics_dict |-> EmptyDict, forensics_summary |-> "",
     multimodal_dict |-> EmptyDict, audio_video_score |-> 5000,
     fake_type_str |-> "unknown", fake_type_confidence |-> Frac(0, 1),
     fake_type_explanation |-> "",
     threat_level_str |-> "unknown", threat_score |-> [num |-> 50, den |-> 1, side |-> 0],
     threat_explanation |-> "", threat_recommendations |-> <<>>,
     threat_color |-> "#6c757d", ethics_summary |-> "",
     \* threat_result is bound only by the assess call
     threat_result |-> None]

\* d if d else None
OrNone(d) == IF DOMAIN d # {} THEN Some(d) ELSE None

\* truth value of an Optional[List]: None and the empty list are falsy
HasFrames(frames) == frames # None /\ frames[1] > 0

\* _get_video_info(video_path)
_get_video_info(video) ==
    IF ~video.opened THEN [error |-> "Cannot open video"]
    ELSE [fps |-> video.fps, frame_count |-> video.frame_count,
          width |-> video.width, height |-> video.height,
          duration_seconds |-> IF video.fps > 0 THEN Frac(video.frame_count, video.fps)
                               ELSE Frac(0, 1)]

\* _load_video_frames(video_path, max_frames): the number of frames read
\* while len(frames) < max_frames
_load_video_frames(video, max_frames) == Max(0, Min(video.readable, max_frames))

\* len(frames[:max_frames]) for a list of n frames: a negative max_frames
\* counts from the end of the list
SliceTo(n, max_frames) ==
    IF max_frames >= 0 THEN Min(n, max_frames) ELSE Max(0, n + max_frames)

\* lines 171-176
start_analysis(c, L) ==
    Advance([L EXCEPT
        !.video_info = _get_video_info(c.video),
        !.frames = IF c.frames = None /\ (c.enable.gradcam \/ c.enable.forensics)
                   THEN Some(_load_video_frames(c.video, c.max_frames))
                   ELSE c.frames], "ok")

ForensicsFailureEscapes(L) ==
    [L EXCEPT !.pc = "raised", !.trace = Append(@, <<"forensics", "raised">>)]

\* except Exception as e: of the forensics stage (lines 218-220)
forensics_failed(L) ==
    Advance([L EXCEPT !.forensics_dict = [error |-> "failed"],
                      !.forensics_summary = "Forensics analysis failed"], "raised")

\* Feature 6: the classify call and the three assignments after it
classification_ok(c, L) ==
    LET r == ClassifyValue(NewClassifier(None),
                 [model_prediction |-> c.model_prediction,
                  forensics_metrics |-> OrNone(L.forensics_dict),
                  multimodal_metrics |-> OrNone(L.multimodal_dict),
                  timeline_stats |-> OrNone(L.timeline_stats)])
    IN  [L EXCEPT !.fake_type_str = r.primary_type,
                  !.fake_type_confidence = r.confidence,
                  !.fake_type_explanation = "explanation"]

\* lines 261-265: the five assignments after the assess call
threat_assigned(L, r) ==
    [L EXCEPT !.threat_result = Some(r),
              !.threat_level_str = r.level,
              !.threat_score = r.overall_score,
              !.threat_explanation = "explanation",
              !.threat_recommendations = r.recommendations,
              \* ThreatAssessment.color_code
              !.threat_color =
                  CASE r.level = "safe" -> "#28a745"
                    [] r.level = "suspicious" -> "#ffc107"
                    [] r.level = "high_risk" -> "#fd7e14"
                    [] r.level = "critical" -> "#dc3545"]

\* Feature 7: the assess call and the five assignments after it
threat_ok(c, L) ==
    threat_assigned(L,
        AssessValue(NewScorer(None, None),
            [model_prediction |-> c.model_prediction,
             forensics_metrics |-> OrNone(L.forensics_dict),
             multimodal_metrics |-> OrNone(L.multimodal_dict),
             timeline_stats |-> OrNone(L.timeline_stats),
             fake_type_result |->
                 IF c.enable.classification
                 THEN Some([type |-> L.fake_type_str,
                            confidence |-> L.fake_type_confidence])
                 ELSE None]))

---------------------------------------------------------------------------
(* The run as a state machine *)

\* what cv2 makes of video_path, and what its picture measures: a file that
\* does not open, a clip of 100 frames, the same of a heavily compressed
\* picture, a file that opens and yields no frame, and a clip whose
\* container reports no frame rate
PipelineVideos ==
    {[opened |-> FALSE, fps |-> 0, frame_count |-> 0, width |-> 0, height |-> 0,
      readable |-> 0, still |-> TRUE, blockiness |-> 64, frequency_anomaly |-> 19],
     [opened |-> TRUE, fps |-> 30, frame_count |-> 100, width |-> 640, height |-> 480,
      readable |-> 100, still |-> TRUE, blockiness |-> 64, frequency_anomaly |-> 19],
     [opened |-> TRUE, fps |-> 30, frame_count |-> 100, width |-> 640, height |-> 480,
      readable |-> 100, still |-> TRUE, blockiness |-> 400, frequency_anomaly |-> 70],
     [opened |-> TRUE, fps |-> 30, frame_count |-> 0, width |-> 640, height |-> 480,
      readable |-> 0, still |-> TRUE, blockiness |-> 64, frequency_anomaly |-> 19],
     [opened |-> TRUE, fps |-> 0, frame_count |-> 100, width |-> 640, height |-> 480,
      readable |-> 100, still |-> TRUE, blockiness |-> 64, frequency_anomaly |-> 19]}

\* what analyze_audio makes of the path, whether or not cv2 opens it: no
\* audio track that ffmpeg can extract, the features of three seconds of
\* silence, or those of 2048 samples of a 120 Hz tone
PipelineAudios ==
    {[outcome |-> "returned", value |-> InvalidFeatures("Failed to extract audio")],
     analyze_loaded([audio |-> Some(48000), sample_rate |-> 16000, signal |-> Flat]),
     analyze_loaded([audio |-> Some(2048), sample_rate |-> 16000, signal |-> Voice])}

PipelineCalls ==
    {[model_prediction |-> mp, video |-> v, audio |-> a, has_model |-> m.has_model,
      seq_length |-> m.seq_length, frames |-> f, max_frames |-> mf, enable |-> e] :
        mp \in {[prediction_label |-> "FAKE", confidence |-> 95],
                [prediction_label |-> "REAL", confidence |-> 90]},
        v \in PipelineVideos, a \in PipelineAudios,
        m \in {[has_model |-> FALSE, seq_length |-> 0],
               [has_model |-> TRUE, seq_length |-> 100],
               [has_model |-> TRUE, seq_length |-> 1]},
        f \in {None, Some(0), Some(150)},
        mf \in {100, 0, -5},
        e \in {[gradcam |-> TRUE, timeline |-> TRUE, forensics |-> TRUE,
                multimodal |-> TRUE, classification |-> TRUE, threat |-> TRUE],
               [gradcam |-> TRUE, timeline |-> TRUE, forensics |-> TRUE,
                multimodal |-> TRUE, classification |-> FALSE, threat |-> TRUE],
               [gradcam |-> FALSE, timeline |-> FALSE, forensics |-> FALSE,
                multimodal |-> FALSE, classification |-> FALSE, threat |-> FALSE]}}

\* generate_sequence_gradcam(model, input_tensor, frames[:n], ...) for the n
\* frames it is given: one result per frame, each saved; a saved image is
\* named by its frame index, the confidence of the forward pass is 0.9
GradCamStageResults(n) ==
    [gradcam_images |-> [i \in 1..n |-> i - 1],
     gradcam_summary |-> [frames_processed |-> n,
                          average_confidence |-> IF n > 0 THEN 90 ELSE 0]]

\* timeline.get_temporal_stats() of a timeline whose n frames all have the
\* fake probability 0.9; probabilities and ratios in hundredths
TimelineStageStats(n) ==
    IF n = 0 THEN EmptyDict
    ELSE [mean_fake_probability |-> 90, std_fake_probability |-> 0,
          max_fake_probability |-> 90, min_fake_probability |-> 90,
          temporal_variance |-> 0, temporal_consistency_score |-> 100,
          anomaly_count |-> 0, anomaly_ratio |-> 0, total_frames |-> n]

\* timeline.to_chartjs_data() of that timeline: a label and a timestamp (in
\* seconds) per frame and three datasets of one value (in percent) per
\* frame; a label is given by its frame index
TimelineStageData(n, fps) ==
    IF n = 0 THEN [labels |-> <<>>, datasets |-> <<>>]
    ELSE [labels |-> [i \in 1..n |-> i - 1],
          timestamps |-> [i \in 1..n |-> Frac(i - 1, fps)],
          datasets |->
             <<[label |-> "Fake Probability (%)", data |-> [i \in 1..n |-> 90]],
               [label |-> "Real Probability (%)", data |-> [i \in 1..n |-> 10]],
               [label |-> "Smoothed Fake Probability (%)", data |-> [i \in 1..n |-> 90]]>>,
          anomalies |-> <<>>,
          statistics |-> TimelineStageStats(n)]

\* compute_metrics() after n frames of the still clip were added, and
\* asdict of it without analysis_details.  Without a frame every detector
\* returns its default (forensics.py, lines 103, 274, 392, 568).  With
\* frames: the face never changes (100), no blink is counted, so the rate
\* is 0 and the blink score max(0, 30 - (5 - 0) * 6) = 0, and nothing moves
\* (100); the artifact scores are min(100, mean_blockiness * 30) and
\* min(100, mean_freq_anomaly * 100), the means being the picture's.
ForensicsStageMetrics(n, video) ==
    LET face_score == 10000
        blink_score == IF n = 0 THEN 5000 ELSE 0
        stability_score == 10000
        blockiness_score == IF n = 0 THEN 0 ELSE Min(10000, video.blockiness * 30)
        frequency_score == IF n = 0 THEN 0 ELSE Min(10000, video.frequency_anomaly * 100)
        artifact_combined == Nearest(blockiness_score + frequency_score, 2)
        \* face * 0.25 + blink * 0.20 + stability * 0.25 + (100 - artifact) * 0.30
        overall_score == Nearest(face_score * 25 + blink_score * 20 + stability_score * 25
                                     + (10000 - artifact_combined) * 30, 100)
    IN  [face_consistency_score |-> face_score, eye_blink_rate |-> 0,
         eye_blink_score |-> blink_score,
         temporal_stability_score |-> stability_score,
         compression_artifact_score |-> artifact_combined,
         blockiness_index |-> IF n = 0 THEN 0 ELSE video.blockiness,
         frequency_anomaly_score |-> frequency_score,
         overall_forensics_score |-> Clip(overall_score, 0, 10000),
         frame_count |-> n, faces_detected |-> n]

\* the number of frames the forensics stage analyzes: frames[:max_frames]
\* of a non-empty list, else what analyze_video reads of the opened video,
\* while frame_idx < min(total_frames, max_frames)
ForensicsFrames(c, L) ==
    IF HasFrames(L.frames) THEN SliceTo(L.frames[1], c.max_frames)
    ELSE Max(0, Min(Min(c.video.frame_count, c.max_frames), c.video.readable))

\* Feature 5, the two assignments after analyze returned
multimodal_ok(L, multimodal_result) ==
    [L EXCEPT !.multimodal_dict = to_dict(multimodal_result),
              !.audio_video_score = multimodal_result.combined_score]

PipelineInit ==
    /\ pipelineCall \in PipelineCalls
    /\ pipeline = InitialLocals
    /\ ThreatIdle /\ ClassifierIdle /\ AnalyzersIdle /\ AfterPipelineIdle

PipelineFrame ==
    UNCHANGED <<threatVars, classifierVars, analyzerVars, pipelineCall, afterPipeline>>

StartAnalysis ==
    /\ pipeline # None /\ pipeline.pc = "start"
    /\ pipeline' = start_analysis(pipelineCall, pipeline)
    /\ PipelineFrame

\* Feature 1 (lines 178-195)
GradCamStage ==
    /\ pipeline # None /\ pipeline.pc = "gradcam"
    /\ IF pipelineCall.enable.gradcam /\ pipelineCall.has_model /\ HasFrames(pipeline.frames)
       THEN \/ LET results == GradCamStageResults(
                                   Min(pipeline.frames[1], pipelineCall.seq_length))
               IN  pipeline' = Advance([pipeline EXCEPT
                                          !.gradcam_images = results.gradcam_images,
                                          !.gradcam_summary = results.gradcam_summary],
                                       "ok")
            \/ pipeline' = Advance([pipeline EXCEPT
                                       !.gradcam_summary = [error |-> "failed"]], "raised")
       ELSE pipeline' = Advance(pipeline, "skipped")
    /\ PipelineFrame

\* Feature 2 (lines 197-206)
TimelineStage ==
    /\ pipeline # None /\ pipeline.pc = "timeline"
    /\ IF pipelineCall.enable.timeline /\ pipelineCall.has_model
       THEN \/ LET fps == Get(pipeline.video_info, "fps", 30)
               IN  \* add_frame divides the frame index by fps
                   /\ fps # 0 \/ pipelineCall.seq_length = 0
                   /\ pipeline' = Advance([pipeline EXCEPT
                          !.timeline_data = TimelineStageData(pipelineCall.seq_length, fps),
                          !.timeline_stats = TimelineStageStats(pipelineCall.seq_length)],
                          "ok")
            \/ pipeline' = Advance([pipeline EXCEPT
                                       !.timeline_stats = [error |-> "failed"]], "raised")
       ELSE pipeline' = Advance(pipeline, "skipped")
    /\ PipelineFrame

\* Feature 3 (lines 208-220): analyze_frames when there are frames, else
\* analyze_video, which raises ValueError when the capture does not open
ForensicsStage ==
    /\ pipeline # None /\ pipeline.pc = "forensics"
    /\ IF pipelineCall.enable.forensics
       THEN \/ /\ HasFrames(pipeline.frames) \/ pipelineCall.video.opened
               /\ pipeline' = Advance([pipeline EXCEPT
                                         !.forensics_dict =
                                             ForensicsStageMetrics(
                                                 ForensicsFrames(pipelineCall, pipeline),
                                                 pipelineCall.video),
                                         !.forensics_summary = "summary"], "ok")
            \/ pipeline' = forensics_failed(pipeline)
       ELSE pipeline' = Advance(pipeline, "skipped")
    /\ PipelineFrame

\* Feature 5 (lines 222-229)
MultimodalStage ==
    /\ pipeline # None /\ pipeline.pc = "multimodal"
    /\ IF pipelineCall.enable.multimodal
       THEN \/ LET multimodal_result == analyze(pipelineCall.video, pipelineCall.audio)
               IN  /\ multimodal_result.outcome = "returned"
                   /\ pipeline' = Advance(multimodal_ok(pipeline, multimodal_result.value),
                                          "ok")
            \/ pipeline' = Advance([pipeline EXCEPT
                                       !.multimodal_dict = [error |-> "failed"]], "raised")
       ELSE pipeline' = Advance(pipeline, "skipped")
    /\ PipelineFrame

\* Feature 6 (lines 231-244)
ClassificationStage ==
    /\ pipeline # None /\ pipeline.pc = "classification"
    /\ IF pipelineCall.enable.classification
       THEN \/ pipeline' = Advance(classification_ok(pipelineCall, pipeline), "ok")
            \/ pipeline' = Advance([pipeline EXCEPT
                                       !.fake_type_explanation = "Classification failed"],
                                   "raised")
       ELSE pipeline' = Advance(pipeline, "skipped")
    /\ PipelineFrame

\* Feature 7 (lines 246-267)
ThreatStage ==
    /\ pipeline # None /\ pipeline.pc = "threat"
    /\ IF pipelineCall.enable.threat
       THEN \/ pipeline' = Advance(threat_ok(pipelineCall, pipeline), "ok")
            \/ pipeline' = Advance([pipeline EXCEPT
                                       !.threat_explanation = "Threat assessment failed"],
                                   "raised")
       ELSE pipeline' = Advance(pipeline, "skipped")
    /\ PipelineFrame

\* Feature 8 and the return of the ExplainabilityResult (lines 269-298)
ReturnResult ==
    /\ pipeline # None /\ pipeline.pc = "ethics"
    /\ pipeline' = Advance([pipeline EXCEPT !.ethics_summary = "summary"], "ok")
    /\ PipelineFrame

PipelineNext ==
    \/ StartAnalysis \/ GradCamStage \/ TimelineStage \/ ForensicsStage
    \/ MultimodalStage \/ ClassificationStage \/ ThreatStage \/ ReturnResult

PipelineSpec == PipelineInit /\ [][PipelineNext]_vars

---------------------------------------------------------------------------
(* Claims about the pipeline's handling of failures *)

\* the local variables each stage assigns
OwnFields(stage) ==
    CASE stage = "start" -> {"video_info", "frames"}
      [] stage = "gradcam" -> {"gradcam_images", "gradcam_summary"}
      [] stage = "timeline" -> {"timeline_data", "timeline_stats"}
      [] stage = "forensics" -> {"forensics_dict", "forensics_summary"}
      [] stage = "multimodal" -> {"multimodal_dict", "audio_video_score"}
      [] stage = "classification" ->
            {"fake_type_str", "fake_type_confidence", "fake_type_explanation"}
      [] stage = "threat" ->
            {"threat_result", "threat_level_str", "threat_score", "threat_explanation",
             "threat_recommendations", "threat_color"}
      [] stage = "ethics" -> {"ethics_summary"}

\* the value a field has after its stage raised: its default, or the marker
\* of the failure (an error dict, or a text saying the stage failed)
DefaultOrMarker(L, f) ==
    IF f \in {"gradcam_summary", "timeline_stats", "forensics_dict", "multimodal_dict"}
    THEN L[f] \in {InitialLocals[f], [error |-> "failed"]}
    ELSE IF f \in {"forensics_summary", "fake_type_explanation", "threat_explanation"}
    THEN L[f] \in {"", "Forensics analysis failed", "Classification failed",
                   "Threat assessment failed"}
    ELSE L[f] = InitialLocals[f]

StageRaised(L, stage) == \E i \in 1..Len(L.trace) : L.trace[i] = <<stage, "raised">>

\* a step of the run passes to the next stage and touches only the fields
\* of the stage it leaves; when that stage raised they are default or marker
StageStep ==
    (pipeline # None /\ pipeline' # pipeline) =>
        /\ pipeline'.pc = NextStage(pipeline.pc)
        /\ \A f \in (DOMAIN pipeline) \ (OwnFields(pipeline.pc) \cup {"pc", "trace"}) :
              pipeline'[f] = pipeline[f]
        /\ StageRaised(pipeline', pipeline.pc) =>
              \A f \in OwnFields(pipeline.pc) : DefaultOrMarker(pipeline', f)

NoEscape == pipeline # None => pipeline.pc \in {StageOrder[i] : i \in 1..Len(StageOrder)}

\* C15: whatever stages among Grad-CAM, timeline, forensics, multimodal,
\* classification and threat raise, analyze_video raises nothing and returns
\* its result; a raising stage leaves only its own fields at their default
\* or error marker, and every later stage is still passed in the fixed order.
C15_StagesFailInIsolation == [](NoEscape) /\ [][StageStep]_vars

\* a returned result of a run in which all six stages raised
C15_Witness ==
    /\ pipeline # None /\ pipeline.pc = "done"
    /\ \A stage \in {"gradcam", "timeline", "forensics", "multimodal", "classification",
                     "threat"} : StageRaised(pipeline, stage)
    /\ pipeline.fake_type_str = "unknown"
    /\ pipeline.ethics_summary = "summary"

\* the video is not opened and the caller has neither frames nor a tensor
UnreadableInput ==
    /\ ~pipelineCall.video.opened
    /\ pipelineCall.frames = None
    /\ ~pipelineCall.has_model

\* C16: when the video cannot be opened at all, the returned result carries
\* an explicit error and neutral downstream fields: fake_type 'unknown' with
\* confidence 0, threat_level 'unknown' with threat_score 50, no
\* recommendations.
C16_UnreadableInputGivesNeutralResult ==
    (pipeline # None /\ pipeline.pc = "done" /\ UnreadableInput) =>
        /\ "error" \in DOMAIN pipeline.video_info
        /\ pipeline.fake_type_str = "unknown"
        /\ pipeline.fake_type_confidence.num = 0
        /\ pipeline.threat_level_str = "unknown"
        /\ pipeline.threat_score = InitialLocals.threat_score
        /\ pipeline.threat_recommendations = <<>>

---------------------------------------------------------------------------
(* AudioExtractor and AudioAnalyzer.analyze_audio (multimodal.py)          *)
(*                                                                         *)
(* A WAV file is its two magic words and its sequence of chunks; a fmt     *)
(* chunk carries the sample_rate field, a data chunk its number of bytes   *)
(* and the signal its samples hold.  Loaded audio is its number of         *)
(* samples and that signal.                                                *)

FmtChunk(sample_rate) ==
    [id |-> "fmt ", sample_rate |-> sample_rate, bytes |-> 16, signal |-> Flat]
DataChunk(bytes, signal) ==
    [id |-> "data", sample_rate |-> 0, bytes |-> bytes, signal |-> signal]
ListChunk == [id |-> "LIST", sample_rate |-> 0, bytes |-> 4, signal |-> Flat]

\* the index of the first chunk named id at or after position from, or 0
\* when the file ends first (the while True loops of load_audio_data)
FindChunk(chunks, id, from) ==
    LET found == {i \in from..Len(chunks) : chunks[i].id = id}
    IN  IF found = {} THEN 0 ELSE CHOOSE i \in found : \A j \in found : i <= j

NoAudio == [audio |-> None, sample_rate |-> 0, signal |-> Flat]

\* AudioExtractor.load_audio_data: (samples, sample_rate), or (None, 0)
load_audio_data(file) ==
    IF file.riff # "RIFF" THEN NoAudio
    ELSE IF file.wave # "WAVE" THEN NoAudio
    ELSE
    LET f == FindChunk(file.chunks, "fmt ", 1)
    IN  IF f = 0 THEN NoAudio
        ELSE
        LET d == FindChunk(file.chunks, "data", f + 1)
        IN  IF d = 0 THEN NoAudio
            \* np.frombuffer raises ValueError, caught by except Exception
            ELSE IF file.chunks[d].bytes % 2 # 0 THEN NoAudio
            ELSE [audio |-> Some(file.chunks[d].bytes \div 2),
                  sample_rate |-> file.chunks[f].sample_rate,
                  signal |-> file.chunks[d].signal]

\* AudioExtractor.extract_audio(video_path) without output_path, after
\* mkstemp succeeded: the returned path and whether the temporary file is
\* still on disk.  No branch of the method deletes the file.
extract_audio(env) ==
    IF env.ffmpeg = "ok"
    THEN [audio_path |-> Some("tmp.wav"), temp_exists |-> TRUE]
    \* FileNotFoundError and TimeoutExpired are caught; a non-zero exit and
    \* an empty output file return None
    ELSE [audio_path |-> None, temp_exists |-> TRUE]

---------------------------------------------------------------------------
(* One analyze_audio call as a state machine *)

MaxChunks == 3

\* 200 samples of a square wave of period 40: the sign changes after the
\* samples 19, 39, ..., 179
SquareWave ==
    [zero_crossings |-> [k \in 1..9 |-> 20 * k - 1], pitches |-> 0, pitch_mean |-> 0,
     pitch_cv |-> 0]

\* 3000 samples of a voice around 120 Hz whose period wanders: a pitch in
\* each of the four analysis frames with std / mean = 0.028649
Speech ==
    [zero_crossings |->
        <<64, 130, 200, 271, 339, 408, 480, 552, 621, 689, 759, 829, 896, 961, 1027,
          1094, 1157, 1220, 1282, 1346, 1410, 1471, 1532, 1596, 1661, 1725, 1788, 1854,
          1922, 1989, 2056, 2125, 2196, 2266, 2335, 2406, 2477, 2548, 2615, 2684, 2753,
          2821, 2885, 2950>>,
     pitches |-> 4, pitch_mean |-> 120, pitch_cv |-> 28649]

ChunkKinds ==
    {FmtChunk(16000), FmtChunk(0), DataChunk(0, Flat), DataChunk(3, Flat),
     DataChunk(4, Flat), DataChunk(400, SquareWave), DataChunk(4096, Voice),
     DataChunk(6000, Speech), ListChunk}

ChunkSeqs == UNION {[1..n -> ChunkKinds] : n \in 0..MaxChunks}

\* what ffmpeg wrote when it exited with 0
WavFiles ==
    {[riff |-> r, wave |-> w, chunks |-> cs] :
        r \in {"RIFF", "RIFX"}, w \in {"WAVE", "AVI "}, cs \in ChunkSeqs}

\* the outcome of mkstemp, of the ffmpeg subprocess, and the file it left
AudioEnvironments ==
    {[mkstemp |-> "OSError", ffmpeg |-> "not run", file |-> None]}
    \cup {[mkstemp |-> "ok", ffmpeg |-> o, file |-> None] :
            o \in {"missing", "non-zero exit", "timeout", "empty output"}}
    \cup {[mkstemp |-> "ok", ffmpeg |-> "ok", file |-> Some(w)] : w \in WavFiles}

AudioInit ==
    /\ audioCall \in AudioEnvironments
    /\ audio = [pc |-> "start", audio_path |-> None, temp_exists |-> FALSE,
                loaded |-> None, pending |-> None, result |-> None]
    /\ ThreatIdle /\ ClassifierIdle /\ AnalyzersIdle /\ PipelineIdle /\ AfterAudioIdle

AudioFrame ==
    UNCHANGED <<threatVars, classifierVars, analyzerVars, pipelineVars, audioCall,
                afterAudio>>

\* line 378: self.extractor.extract_audio(video_path); mkstemp is called
\* before the try block of extract_audio, so its OSError leaves the method
ExtractAudio ==
    /\ audio # None /\ audio.pc = "start"
    /\ audio' =
         IF audioCall.mkstemp # "ok"
         THEN [audio EXCEPT !.pc = "raised", !.result = Some("OSError")]
         ELSE LET e == extract_audio(audioCall)
              IN  [audio EXCEPT !.pc = "extracted", !.audio_path = e.audio_path,
                                !.temp_exists = e.temp_exists]
    /\ AudioFrame

\* lines 380-394: if audio_path is None: return AudioFeatures(is_valid=False)
ReturnExtractFailed ==
    /\ audio # None /\ audio.pc = "extracted" /\ audio.audio_path = None
    /\ audio' = [audio EXCEPT !.pc = "returned",
                              !.result = Some(InvalidFeatures("Failed to extract audio"))]
    /\ AudioFrame

\* line 398: audio, sample_rate = self.extractor.load_audio_data(audio_path)
LoadAudio ==
    /\ audio # None /\ audio.pc = "extracted" /\ audio.audio_path # None
    /\ audio' = [audio EXCEPT !.pc = "loaded",
                              !.loaded = Some(load_audio_data(audioCall.file[1]))]
    /\ AudioFrame

\* lines 400-436: the rest of the try block; the finally clause runs next
ComputeFeatures ==
    /\ audio # None /\ audio.pc = "loaded"
    /\ audio' = [audio EXCEPT !.pc = "finally",
                              !.pending = Some(analyze_loaded(audio.loaded[1]))]
    /\ AudioFrame

\* lines 438-444: unlink the temporary file, then return or re-raise
CleanupTempFile ==
    /\ audio # None /\ audio.pc = "finally"
    /\ audio' = [audio EXCEPT !.pc = audio.pending[1].outcome,
                              !.result = Some(audio.pending[1].value),
                              !.temp_exists = FALSE]
    /\ AudioFrame

AudioNext ==
    \/ ExtractAudio
    \/ ReturnExtractFailed
    \/ LoadAudio
    \/ ComputeFeatures
    \/ CleanupTempFile

AudioSpec == AudioInit /\ [][AudioNext]_vars

---------------------------------------------------------------------------
(* Claim about analyze_audio *)

AudioExited == audio # None /\ audio.pc \in {"returned", "raised"}

\* C17: analyze_audio never raises; for every outcome of the ffmpeg run and
\* of the WAV loading (decoder missing, non-zero exit, timeout, malformed or
\* truncated chunks or header fields, empty data) it returns an AudioFeatures
\* value, which has is_valid = False and an error message whenever the audio
\* was not decoded.
C17_AnalyzeAudioNeverRaises ==
    (AudioExited /\ audioCall.mkstemp = "ok") =>
        /\ audio.pc = "returned"
        /\ (audio.loaded = None \/ audio.loaded[1].audio \in {None, Some(0)}) =>
              (~audio.result[1].is_valid /\ audio.result[1].error_message # None)

---------------------------------------------------------------------------
(* GradCAMExplainer (gradcam.py)                                           *)
(*                                                                         *)
(* A tensor is named by the pass that produced it: the call and the frame  *)
(* the pass was run for, or the function and the line of the pass when     *)
(* other code ran the model.  A hook handle names the explainer it belongs *)
(* to and its kind.  hooked lists the handles registered on the target     *)
(* layer of the model that the passes run through, in the order of their   *)
(* registration (the layer keeps its hooks in ordered dicts).              *)

Range(s) == {s[i] : i \in 1..Len(s)}

Handle(owner, kind) == [owner |-> owner, kind |-> kind]

Pass(c, frame) == [call |-> c, frame |-> frame]

\* _register_hooks: the forward hook, then the backward hook
_register_hooks(owner, self) ==
    [self EXCEPT !.hooks = @ \o <<Handle(owner, "forward"), Handle(owner, "backward")>>]

\* __init__
GradCAMExplainer(owner) ==
    _register_hooks(owner, [hooks |-> <<>>, gradients |-> None, activations |-> None])

_forward_hook(self, output) == [self EXCEPT !.activations = Some(output)]

_backward_hook(self, grad_output) == [self EXCEPT !.gradients = Some(grad_output)]

\* cleanup: hook.remove() for each handle (see Unhook), then the three resets
cleanup(self) == [hooks |-> <<>>, gradients |-> None, activations |-> None]

\* the target layer after hook.remove() of every handle the explainer holds
Unhook(H, self) ==
    LET Stays(h) == h \notin Range(self.hooks) IN SelectSeq(H, Stays)

\* the model's forward pass: the layer calls every forward hook registered
\* on it, whichever explainer registered it
ForwardPass(E, H, output) ==
    [e \in DOMAIN E |->
        IF Handle(e, "forward") \in H THEN _forward_hook(E[e], output) ELSE E[e]]

\* score.backward(): the layer calls every backward hook registered on it
BackwardPass(E, H, grad_output) ==
    [e \in DOMAIN E |->
        IF Handle(e, "backward") \in H THEN _backward_hook(E[e], grad_output) ELSE E[e]]

\* generate_cam from line 115 on: the tensors read from the instance, the
\* RuntimeError, or the map computed from the tensors read
ReadCaptured(self) ==
    IF self.gradients = None \/ self.activations = None
    THEN [outcome |-> "RuntimeError", activations |-> None, gradients |-> None]
    ELSE [outcome |-> "returned", activations |-> self.activations,
          gradients |-> self.gradients]

\* generate_cam as one uninterrupted call for the pass p; Hf and Hb are the
\* hooks on the layers that take part in its forward and backward pass
generate_cam(E, Hf, Hb, e, p) ==
    LET afterForward == ForwardPass(E, Hf, p)
        afterBackward == BackwardPass(afterForward, Hb, p)
    IN  [explainers |-> afterBackward, cam |-> ReadCaptured(afterBackward[e])]

---------------------------------------------------------------------------
(* One explainer used for several generate_cam calls *)

MaxCalls == 3

ExplainerInit ==
    /\ explainers = [e \in {"e"} |-> GradCAMExplainer(e)]
    /\ hooked = GradCAMExplainer("e").hooks
    /\ camCalls = <<>>
    /\ modelCall = None
    /\ ThreatIdle /\ ClassifierIdle /\ AnalyzersIdle /\ PipelineIdle /\ AudioIdle
    /\ AfterGradCamIdle

GradCamFrame ==
    UNCHANGED <<threatVars, classifierVars, analyzerVars, pipelineVars, audioVars,
                afterGradCam>>

\* a step of the Grad-CAM code: no other code runs the model in it
CamCallFrame == UNCHANGED modelCall /\ GradCamFrame

\* explainer.generate_cam(input_tensor): a hook runs only when it is
\* registered and the hooked layer takes part in the pass
GenerateCam ==
    /\ Len(camCalls) < MaxCalls
    /\ \E forward_runs_layer \in BOOLEAN, backward_runs_layer \in BOOLEAN :
         LET p == Pass("e", Len(camCalls) + 1)
             r == generate_cam(explainers,
                               IF forward_runs_layer THEN Range(hooked) ELSE {},
                               IF backward_runs_layer THEN Range(hooked) ELSE {}, "e", p)
         IN  /\ explainers' = r.explainers
             /\ camCalls' = Append(camCalls,
                    [pass |-> p, cam |-> r.cam,
                     captured |-> forward_runs_layer /\ backward_runs_layer
                                  /\ Handle("e", "forward") \in Range(hooked)
                                  /\ Handle("e", "backward") \in Range(hooked)])
    /\ UNCHANGED hooked
    /\ CamCallFrame

\* explainer.cleanup()
CleanupExplainer ==
    /\ hooked' = Unhook(hooked, explainers["e"])
    /\ explainers' = [explainers EXCEPT !["e"] = cleanup(@)]
    /\ UNCHANGED camCalls
    /\ CamCallFrame

ExplainerNext == GenerateCam \/ CleanupExplainer

ExplainerSpec == ExplainerInit /\ [][ExplainerNext]_vars

\* C18: generate_cam raises RuntimeError in every call during which the
\* hooks failed to capture the activation or the gradient, and a map it
\* returns is computed from the tensors of that call's own pass, never from
\* tensors captured during an earlier call.
C18_NoCamFromEarlierCall ==
    camCalls # None =>
        \A i \in 1..Len(camCalls) :
            /\ ~camCalls[i].captured => camCalls[i].cam.outcome = "RuntimeError"
            /\ camCalls[i].cam.outcome = "returned" =>
                  /\ camCalls[i].cam.activations = Some(camCalls[i].pass)
                  /\ camCalls[i].cam.gradients = Some(camCalls[i].pass)

---------------------------------------------------------------------------
(* generate_gradcam_heatmap and generate_sequence_gradcam: concurrent     *)
(* calls on one shared model, each with its own GradCAMExplainer           *)
(*                                                                         *)
(* The threads interleave between the lines of gradcam.py and, inside a    *)
(* pass of the model, between the hooks the target layer calls.  A call of *)
(* the layer (torch.nn.Module.__call__) collects the layer's full backward *)
(* hooks before it runs forward, and the layer's forward hooks after;      *)
(* it then calls the forward hooks collected one after the other, and      *)
(* backward() calls the backward hooks collected.  A hook removed after it *)
(* was collected is still called.                                          *)
(*                                                                         *)
(* Other code runs the same model while the calls are in progress:         *)
(* timeline.extract_frame_probabilities_from_model and                     *)
(* WebcamDeepfakeDetector.run_inference.  Both run it under                *)
(* torch.no_grad(), so their passes have no backward pass and the layer    *)
(* calls only its forward hooks in them.                                   *)

CallIds == {"A", "B"}

\* the threads that use the model: the Grad-CAM calls and thread T, which
\* calls one of the two other functions
Threads == CallIds \cup {"T"}

MaxSeqLength == 2

\* the number of threads that use the model at the same time
MaxThreads == 2

\* generate_gradcam_heatmap explains one frame, generate_sequence_gradcam
\* the first seq_length frames; call A is a sequence call, call B explains
\* one frame with either function.  seq_length is the number of frames of
\* the call's input tensor.
CamCallArgs(c) ==
    IF c = "A"
    THEN {[function |-> "generate_sequence_gradcam", seq_length |-> n] :
            n \in 1..MaxSeqLength}
    ELSE {[function |-> "generate_gradcam_heatmap", seq_length |-> 1],
          [function |-> "generate_sequence_gradcam", seq_length |-> 1]}

\* gradients is the local variable of generate_cam, removed the number of
\* handles that cleanup's loop has removed; forward_hooks and
\* backward_hooks belong to the call of the layer in progress: the forward
\* hooks still to call and the backward hooks collected
NewCamCall(args) ==
    [function |-> args.function, seq_length |-> args.seq_length, pc |-> "start",
     frame_idx |-> 0, gradients |-> None, cam |-> None, results |-> <<>>,
     pending |-> None, removed |-> 0, error |-> None,
     forward_hooks |-> <<>>, backward_hooks |-> <<>>]

\* a thread that calls none of the functions
NotCalled(new) == [new EXCEPT !.pc = "not_called"]

\* extract_frame_probabilities_from_model(model, input_tensor) and
\* detector.run_inference(input_tensor) on a tensor of one sequence of
\* seq_length frames (timeline.py line 314; webcam.py line 179 stacks
\* sequence_length frames and adds the batch dimension)
ModelCallArgs ==
    {[function |-> f, seq_length |-> n] :
        f \in {"extract_frame_probabilities_from_model", "run_inference"},
        n \in 1..MaxSeqLength}

\* line is the line of the pass in progress, forward_hooks the forward
\* hooks that the layer collected in it and has still to call
NewModelCall(args) ==
    [function |-> args.function, seq_length |-> args.seq_length, pc |-> "start",
     line |-> 0, forward_hooks |-> <<>>, result |-> None]

NoCamCall == NotCalled(NewCamCall([function |-> None, seq_length |-> 0]))

NoModelCall == NotCalled(NewModelCall([function |-> None, seq_length |-> 0]))

CamCallsInit ==
    /\ \E S \in SUBSET Threads :
          /\ S # {} /\ Cardinality(S) <= MaxThreads
          /\ camCalls \in
                [CallIds -> {NoCamCall} \cup
                            {NewCamCall(args) : args \in CamCallArgs("A") \cup CamCallArgs("B")}]
          /\ \A c \in CallIds :
                IF c \in S
                THEN \E args \in CamCallArgs(c) : camCalls[c] = NewCamCall(args)
                ELSE camCalls[c] = NoCamCall
          /\ IF "T" \in S
             THEN \E args \in ModelCallArgs : modelCall = NewModelCall(args)
             ELSE modelCall = NoModelCall
    /\ explainers = [c \in CallIds |-> None]
    /\ hooked = <<>>
    /\ ThreatIdle /\ ClassifierIdle /\ AnalyzersIdle /\ PipelineIdle /\ AudioIdle
    /\ AfterGradCamIdle

\* the handles of one kind among those registered on the layer
HooksOf(H, kind) == LET OfKind(h) == h.kind = kind IN SelectSeq(H, OfKind)

\* explainer = GradCAMExplainer(model), before the try block: __init__ up
\* to the call of _register_hooks
ConstructExplainer(c) ==
    /\ camCalls[c].pc = "start"
    /\ explainers' = [explainers EXCEPT ![c] = [hooks |-> <<>>, gradients |-> None,
                                                activations |-> None]]
    /\ camCalls' = [camCalls EXCEPT ![c].pc = "register_forward"]
    /\ UNCHANGED hooked
    /\ CamCallFrame

\* _register_hooks line 57: target_layer.register_forward_hook(self._forward_hook)
RegisterForwardHook(c) ==
    /\ camCalls[c].pc = "register_forward"
    /\ hooked' = Append(hooked, GradCAMExplainer(c).hooks[1])
    /\ camCalls' = [camCalls EXCEPT ![c].pc = "append_forward"]
    /\ UNCHANGED explainers
    /\ CamCallFrame

\* _register_hooks line 58: self.hooks.append(forward_hook)
AppendForwardHook(c) ==
    /\ camCalls[c].pc = "append_forward"
    /\ explainers' = [explainers EXCEPT ![c].hooks = Append(@, GradCAMExplainer(c).hooks[1])]
    /\ camCalls' = [camCalls EXCEPT ![c].pc = "register_backward"]
    /\ UNCHANGED hooked
    /\ CamCallFrame

\* _register_hooks line 61: target_layer.register_full_backward_hook(
\* self._backward_hook).  The layer registers the hook, or it raises
\* RuntimeError because it holds a backward hook of the other, non-full
\* kind; the exception leaves __init__ and the function, which has not
\* entered its try block: cleanup() is not called.
RegisterBackwardHook(c) ==
    /\ camCalls[c].pc = "register_backward"
    /\ \/ /\ hooked' = Append(hooked, GradCAMExplainer(c).hooks[2])
          /\ camCalls' = [camCalls EXCEPT ![c].pc = "append_backward"]
       \/ /\ camCalls' = [camCalls EXCEPT ![c].pc = "raised",
                                          ![c].error = Some("RuntimeError")]
          /\ UNCHANGED hooked
    /\ UNCHANGED explainers
    /\ CamCallFrame

\* _register_hooks line 62: self.hooks.append(backward_hook); the try block
\* is entered next
AppendBackwardHook(c) ==
    /\ camCalls[c].pc = "append_backward"
    /\ explainers' = [explainers EXCEPT ![c].hooks = Append(@, GradCAMExplainer(c).hooks[2])]
    /\ camCalls' = [camCalls EXCEPT ![c].pc = "loop"]
    /\ UNCHANGED hooked
    /\ CamCallFrame

\* generate_cam line 95, fmap, logits = self.model(input_tensor), up to the
\* call of the target layer, which collects the full backward hooks it
\* holds at that moment
EnterLayer(c) ==
    /\ camCalls[c].pc = "loop" /\ camCalls[c].frame_idx < camCalls[c].seq_length
    /\ camCalls' = [camCalls EXCEPT ![c].pc = "forward",
                                    ![c].backward_hooks = HooksOf(hooked, "backward")]
    /\ UNCHANGED <<hooked, explainers>>
    /\ CamCallFrame

\* line 95: the layer's forward has returned and the layer collects the
\* forward hooks it holds now
ForwardStep(c) ==
    /\ camCalls[c].pc = "forward"
    /\ camCalls' = [camCalls EXCEPT ![c].pc = "forward_hooks",
                                    ![c].forward_hooks = HooksOf(hooked, "forward")]
    /\ UNCHANGED <<hooked, explainers>>
    /\ CamCallFrame

\* line 95: the layer calls the next forward hook it collected, which is
\* the _forward_hook of the explainer that registered it (line 66); after
\* the last one the pass goes on to its end
CallForwardHook(c) ==
    /\ camCalls[c].pc = "forward_hooks"
    /\ explainers' =
          [explainers EXCEPT ![Head(camCalls[c].forward_hooks).owner] =
              _forward_hook(@, Pass(c, camCalls[c].frame_idx))]
    /\ camCalls' = [camCalls EXCEPT
          ![c].forward_hooks = Tail(@),
          ![c].pc = IF Tail(camCalls[c].forward_hooks) = <<>> THEN "forwarded" ELSE @]
    /\ UNCHANGED hooked
    /\ CamCallFrame

\* generate_cam line 113, score.backward(retain_graph=True): the next of
\* the backward hooks that the layer collected when it was called, which
\* is the _backward_hook of the explainer that registered it (line 70)
BackwardStep(c) ==
    /\ camCalls[c].pc = "forwarded"
    /\ explainers' =
          [explainers EXCEPT ![Head(camCalls[c].backward_hooks).owner] =
              _backward_hook(@, Pass(c, camCalls[c].frame_idx))]
    /\ camCalls' = [camCalls EXCEPT
          ![c].backward_hooks = Tail(@),
          ![c].pc = IF Tail(camCalls[c].backward_hooks) = <<>> THEN "backwarded" ELSE @]
    /\ UNCHANGED hooked
    /\ CamCallFrame

\* generate_cam line 116: gradients = self.gradients
ReadGradients(c) ==
    /\ camCalls[c].pc = "backwarded"
    /\ camCalls' = [camCalls EXCEPT ![c].pc = "read_gradients",
                                    ![c].gradients = explainers[c].gradients]
    /\ UNCHANGED <<hooked, explainers>>
    /\ CamCallFrame

\* lines 133-134, activations[frame_idx] and gradients[frame_idx]: a tensor
\* has one entry for each frame of the pass that produced it, and an index
\* beyond them raises IndexError
SelectFrame(r, frame_idx, frames) ==
    IF /\ r.outcome = "returned"
       /\ \/ frame_idx >= frames[r.activations[1].call]
          \/ frame_idx >= frames[r.gradients[1].call]
    THEN [outcome |-> "IndexError", activations |-> None, gradients |-> None]
    ELSE r

\* the number of frames of the tensors that the passes of each caller
\* produce: the frames of its input
FramesOfPasses ==
    [k \in CallIds \cup {args.function : args \in ModelCallArgs} |->
        IF k \in CallIds THEN camCalls[k].seq_length ELSE modelCall.seq_length]

\* generate_cam lines 117-155: activations = self.activations, then raise
\* or compute the map from the two tensors read
ReadActivations(c) ==
    /\ camCalls[c].pc = "read_gradients"
    /\ LET r == SelectFrame(ReadCaptured([gradients |-> camCalls[c].gradients,
                                          activations |-> explainers[c].activations]),
                            camCalls[c].frame_idx, FramesOfPasses)
       IN  camCalls' =
             IF r.outcome # "returned"
             THEN [camCalls EXCEPT ![c].pc = "finally", ![c].pending = Some("raised"),
                                   ![c].error = Some(r.outcome),
                                   ![c].gradients = None]
             ELSE [camCalls EXCEPT ![c].pc = "overlay", ![c].cam = Some(r),
                                   ![c].gradients = None]
    /\ UNCHANGED <<hooked, explainers>>
    /\ CamCallFrame

\* the overlay and cv2.imwrite of the frame succeed: the result is kept
KeepResult(c) ==
    /\ camCalls[c].pc = "overlay"
    /\ camCalls' = [camCalls EXCEPT
          ![c].pc = "loop",
          ![c].results = Append(@, [frame_idx |-> camCalls[c].frame_idx,
                                    cam |-> camCalls[c].cam[1]]),
          ![c].frame_idx = @ + 1,
          ![c].cam = None]
    /\ UNCHANGED <<hooked, explainers>>
    /\ CamCallFrame

\* the overlay of the frame raises (cv2.resize, cv2.imwrite): the exception
\* leaves the try block through its finally clause
FrameRaises(c) ==
    /\ camCalls[c].pc = "overlay"
    /\ camCalls' = [camCalls EXCEPT ![c].pc = "finally", ![c].pending = Some("raised"),
                                    ![c].error = Some("cv2.error"),
                                    ![c].cam = None]
    /\ UNCHANGED <<hooked, explainers>>
    /\ CamCallFrame

\* the loop is over: return through the finally clause
LoopDone(c) ==
    /\ camCalls[c].pc = "loop" /\ camCalls[c].frame_idx = camCalls[c].seq_length
    /\ camCalls' = [camCalls EXCEPT ![c].pc = "finally", ![c].pending = Some("returned")]
    /\ UNCHANGED <<hooked, explainers>>
    /\ CamCallFrame

\* finally: explainer.cleanup(), lines 202-203: hook.remove() for the next
\* handle of self.hooks
RemoveHook(c) ==
    /\ camCalls[c].pc = "finally"
    /\ camCalls[c].removed < Len(explainers[c].hooks)
    /\ hooked' = Unhook(hooked, [hooks |-> <<explainers[c].hooks[camCalls[c].removed + 1]>>])
    /\ camCalls' = [camCalls EXCEPT ![c].removed = @ + 1]
    /\ UNCHANGED explainers
    /\ CamCallFrame

\* cleanup line 204, after the loop: self.hooks = []
ResetHooks(c) ==
    /\ camCalls[c].pc = "finally"
    /\ camCalls[c].removed = Len(explainers[c].hooks)
    /\ explainers' = [explainers EXCEPT ![c].hooks = cleanup(explainers[c]).hooks]
    /\ camCalls' = [camCalls EXCEPT ![c].pc = "reset_gradients", ![c].removed = 0]
    /\ UNCHANGED hooked
    /\ CamCallFrame

\* cleanup line 205: self.gradients = None
ResetGradients(c) ==
    /\ camCalls[c].pc = "reset_gradients"
    /\ explainers' = [explainers EXCEPT ![c].gradients = cleanup(explainers[c]).gradients]
    /\ camCalls' = [camCalls EXCEPT ![c].pc = "reset_activations"]
    /\ UNCHANGED hooked
    /\ CamCallFrame

\* cleanup line 206: self.activations = None; then the function returns or
\* re-raises
ResetActivations(c) ==
    /\ camCalls[c].pc = "reset_activations"
    /\ explainers' = [explainers EXCEPT ![c].activations = cleanup(explainers[c]).activations]
    /\ camCalls' = [camCalls EXCEPT ![c].pc = camCalls[c].pending[1]]
    /\ UNCHANGED hooked
    /\ CamCallFrame

CamCallStep(c) ==
    \/ ConstructExplainer(c)
    \/ RegisterForwardHook(c)
    \/ AppendForwardHook(c)
    \/ RegisterBackwardHook(c)
    \/ AppendBackwardHook(c)
    \/ EnterLayer(c)
    \/ ForwardStep(c)
    \/ CallForwardHook(c)
    \/ BackwardStep(c)
    \/ ReadGradients(c)
    \/ ReadActivations(c)
    \/ KeepResult(c)
    \/ FrameRaises(c)
    \/ LoopDone(c)
    \/ RemoveHook(c)
    \/ ResetHooks(c)
    \/ ResetGradients(c)
    \/ ResetActivations(c)

\* what is left of the function once the layer has called the forward
\* hooks of a pass: extract_frame_probabilities_from_model goes on from
\* line 310 to the call of the layer at line 324, and after it adds the
\* seq_length frames to the timeline it returns (lines 330-335);
\* run_inference builds the DetectionResult it returns (lines 197-225)
AfterForwardHooks(m) ==
    IF m.function = "extract_frame_probabilities_from_model" /\ m.line = 310
    THEN [m EXCEPT !.pc = "layer"]
    ELSE [m EXCEPT !.pc = "returned",
                   !.result = IF m.function = "run_inference"
                              THEN Some([type |-> "DetectionResult"])
                              ELSE Some([type |-> "FrameProbabilityTimeline",
                                         frames |-> m.seq_length])]

\* a call of the layer without a backward pass, at the given line: the
\* layer's forward has returned and the layer collects the forward hooks it
\* holds now
CollectForwardHooks(m, line, H) ==
    LET called == [m EXCEPT !.pc = "forward_hooks", !.line = line,
                            !.forward_hooks = HooksOf(H, "forward")]
    IN  IF called.forward_hooks = <<>> THEN AfterForwardHooks(called) ELSE called

\* timeline.py line 310, fmap, logits = model(input_tensor), and webcam.py
\* line 196, fmap, logits = self.model(input_tensor), under torch.no_grad()
ModelForward ==
    /\ modelCall.pc = "start"
    /\ modelCall' = CollectForwardHooks(modelCall,
                        IF modelCall.function = "run_inference" THEN 196 ELSE 310, hooked)
    /\ UNCHANGED <<hooked, explainers, camCalls>>
    /\ GradCamFrame

\* timeline.py line 324, features = model.model(x): the hooked layer, called
\* on the frames of the input
LayerForward ==
    /\ modelCall.pc = "layer"
    /\ modelCall' = CollectForwardHooks(modelCall, 324, hooked)
    /\ UNCHANGED <<hooked, explainers, camCalls>>
    /\ GradCamFrame

\* the layer calls the next forward hook it collected, the _forward_hook of
\* the explainer that registered it (gradcam.py line 66), with the output
\* of this pass
CallModelForwardHook ==
    /\ modelCall.pc = "forward_hooks"
    /\ explainers' =
          [explainers EXCEPT ![Head(modelCall.forward_hooks).owner] =
              _forward_hook(@, Pass(modelCall.function, modelCall.line))]
    /\ modelCall' =
          LET rest == [modelCall EXCEPT !.forward_hooks = Tail(@)]
          IN  IF rest.forward_hooks = <<>> THEN AfterForwardHooks(rest) ELSE rest
    /\ UNCHANGED <<hooked, camCalls>>
    /\ GradCamFrame

ModelCallStep ==
    \/ ModelForward
    \/ LayerForward
    \/ CallModelForwardHook

CamCallsNext ==
    \/ \E c \in CallIds : CamCallStep(c)
    \/ ModelCallStep

CamCallsSpec == CamCallsInit /\ [][CamCallsNext]_vars

\* every call keeps running until it has left the function
CamCallsFairSpec ==
    CamCallsSpec /\ WF_vars(ModelCallStep) /\ \A c \in CallIds : WF_vars(CamCallStep(c))

---------------------------------------------------------------------------
(* Claims about the Grad-CAM calls *)

HoldsHooks(c) == \E h \in Range(hooked) : h.owner = c

Released(c) ==
    /\ ~HoldsHooks(c)
    /\ explainers[c] # None
    /\ explainers[c].hooks = <<>>
    /\ explainers[c].gradients = None
    /\ explainers[c].activations = None

CamCallExited(c) == camCalls[c].pc \in {"returned", "raised"}

ExitedCallsReleased ==
    camCalls # None => \A c \in CallIds : CamCallExited(c) => Released(c)

\* C19: every hook that generate_gradcam_heatmap or generate_sequence_gradcam
\* registers is eventually removed, and when the function has exited, by
\* return or by an exception raised part-way through the frame loop, its
\* explainer holds no hooks and no captured tensors.
C19_HooksRemovedAtExit ==
    /\ [](ExitedCallsReleased)
    /\ \A c \in CallIds : HoldsHooks(c) ~> (CamCallExited(c) /\ Released(c))

\* a call that left through the finally clause of its try block
LeftThroughFinally(c) == CamCallExited(c) /\ camCalls[c].pending # None

\* what cleanup() does ensure: after it, none of the call's handles is on
\* the layer or in the explainer's list
HandlesRemovedByCleanup ==
    camCalls # None =>
        \A c \in CallIds :
            LeftThroughFinally(c) => (~HoldsHooks(c) /\ explainers[c].hooks = <<>>)

\* register_full_backward_hook raised: the call has exited and its forward
\* hook stays on the layer
ForwardHookLeftOnLayer ==
    /\ camCalls # None
    /\ \E c \in CallIds :
         /\ camCalls[c].pc = "raised" /\ camCalls[c].pending = None
         /\ Handle(c, "forward") \in Range(hooked)

\* a call has returned, and a hook of its explainer, collected by a pass
\* of another thread before cleanup removed it, has stored a tensor since
TensorStoredAfterReturn ==
    /\ camCalls # None
    /\ \E c \in CallIds :
         /\ camCalls[c].pc = "returned"
         /\ ~HoldsHooks(c)
         /\ explainers[c].activations # None \/ explainers[c].gradients # None

\* activations[frame_idx] raised IndexError: the tensor read came from a
\* pass over fewer frames
IndexErrorRaised ==
    /\ camCalls # None
    /\ \E c \in CallIds : camCalls[c].error = Some("IndexError")

\* a map that a call kept was computed from the output of a pass that
\* extract_frame_probabilities_from_model or run_inference made
CamFromPassOfOtherCode ==
    /\ camCalls # None
    /\ \E c \in CallIds : \E i \in 1..Len(camCalls[c].results) :
          camCalls[c].results[i].cam.activations[1].call \notin CallIds

\* activations[frame_idx] raised IndexError in the only Grad-CAM call in
\* progress: the tensor read came from a pass of the other code over fewer
\* frames
IndexErrorAfterPassOfOtherCode ==
    /\ camCalls # None
    /\ \E c \in CallIds :
          /\ camCalls[c].error = Some("IndexError")
          /\ \A k \in CallIds \ {c} : camCalls[k].pc = "not_called"

\* C20: with one explainer per call on a shared model, every map a call
\* computes comes from the activation and the gradient captured by that
\* call's own forward and backward pass for that frame, under every
\* interleaving.
C20_CamFromOwnPasses ==
    camCalls # None =>
        \A c \in CallIds : \A i \in 1..Len(camCalls[c].results) :
            LET r == camCalls[c].results[i]
            IN  /\ r.cam.activations = Some(Pass(c, r.frame_idx))
                /\ r.cam.gradients = Some(Pass(c, r.frame_idx))

---------------------------------------------------------------------------
(* Further properties of the threat scorer (checked under ThreatSpec) *)

\* Scenario D of the spec: REAL at 90, forensics overall 85, multimodal
\* combined 80, timeline mean fake probability 0.1 with consistency 90,
\* fake type authentic at 85
ScenarioD ==
    /\ call.model_prediction = [prediction_label |-> "REAL", confidence |-> 90]
    /\ call.forensics_metrics # None
    /\ Get(call.forensics_metrics[1], "overall_forensics_score", 5000) = 8500
    /\ call.multimodal_metrics # None
    /\ Get(call.multimodal_metrics[1], "combined_score", 5000) = 8000
    /\ call.timeline_stats # None
    /\ Get(call.timeline_stats[1], "mean_fake_probability", 50) = 10
    /\ Get(call.timeline_stats[1], "temporal_consistency_score", 50) = 90
    /\ call.fake_type_result = Some([type |-> "authentic", confidence |-> Frac(85, 1)])

\* C21: on Scenario D the default scorer returns level safe with an
\* overall_score below 25 (10*0.35 + 15*0.25 + 20*0.15 + 10*0.15 + 15*0.10,
\* which is 13.25 as the exact sum and as the float sum).
C21_ScenarioD_Safe ==
    (Assessed /\ DefaultScorer /\ ScenarioD) =>
        /\ A.level = "safe"
        /\ A.overall_score.num < 25 * A.overall_score.den
        /\ 100 * A.overall_score.num = 1325 * A.overall_score.den
        /\ FCmp(OverallDouble(ComponentDoubles(call), scorer.weight_doubles),
                Hundredths(1325)) = 0

C21_Witness == Assessed /\ DefaultScorer /\ ScenarioD /\ A.level = "safe"


\* component score times weight, over the common denominator score_den * wden
Contribution(k) == A.component_scores[k] * Get(scorer.weights, k, 0)

\* C25: the explanation names as primary concern the component with the
\* highest weighted contribution to overall_score, lists at most the first
\* three risk factors in the order they were produced, and the
\* recommendation list is determined by the level alone.
C25_ExplanationNamesTopContribution ==
    Assessed =>
        /\ \A k \in ComponentKeys :
              Contribution(k) <= Contribution(A.explanation.primary_concern)
        /\ Len(A.explanation.key_risk_factors) = Min(3, Len(A.risk_factors))
        /\ \A i \in 1..Len(A.explanation.key_risk_factors) :
              A.explanation.key_risk_factors[i] = A.risk_factors[i]
        /\ A.recommendations = RecommendationTable[A.level]

---------------------------------------------------------------------------
(* Claim about the threat assessment of a run with failed stages *)

\* the argument assess would get if the failed stage's signal were absent
AbsentIfFailed(d) == IF d = [error |-> "failed"] THEN None ELSE OrNone(d)

SignalStageRaised ==
    \E stage \in {"timeline", "forensics", "multimodal"} : StageRaised(pipeline, stage)

\* C29: when the forensics, multimodal or timeline stage failed, the threat
\* scorer still runs, the confidence it computes is no higher than with the
\* failed stage's signal absent (a failed stage earns no presence bonus), and
\* the failed stage's threat component is the neutral 50.
C29_FailedStageEarnsNoBonus ==
    (pipeline # None /\ pipeline.threat_result # None /\ SignalStageRaised) =>
        LET r == pipeline.threat_result[1]
        IN  /\ r.confidence <= _calculate_confidence(AbsentIfFailed(pipeline.forensics_dict),
                                                     AbsentIfFailed(pipeline.multimodal_dict),
                                                     AbsentIfFailed(pipeline.timeline_stats))
            /\ StageRaised(pipeline, "forensics") => r.component_scores.forensics_score = 50 * r.score_den
            /\ StageRaised(pipeline, "multimodal") => r.component_scores.audio_score = 50 * r.score_den
            /\ StageRaised(pipeline, "timeline") => r.component_scores.temporal_score = 50 * r.score_den

\* the second part of C29 alone
FailedStageScoresNeutral ==
    (pipeline # None /\ pipeline.threat_result # None) =>
        LET r == pipeline.threat_result[1]
        IN  /\ StageRaised(pipeline, "forensics") => r.component_scores.forensics_score = 50 * r.score_den
            /\ StageRaised(pipeline, "multimodal") => r.component_scores.audio_score = 50 * r.score_den
            /\ StageRaised(pipeline, "timeline") => r.component_scores.temporal_score = 50 * r.score_den

---------------------------------------------------------------------------
(* Claim about the temporary audio file *)

\* C28: whenever analyze_audio has returned or raised, the temporary audio
\* file that extract_audio created during the call no longer exists, on the
\* success path and on every failure path (extraction failure, timeout, load
\* failure, exception during feature computation).
C28_TempFileDeletedAtExit ==
    AudioExited => ~audio.temp_exists

\* what does hold: once the audio path was handed to analyze_audio (the
\* extraction succeeded), the file is deleted at exit
TempFileDeletedAfterExtraction ==
    (AudioExited /\ audio.audio_path # None) => ~audio.temp_exists

---------------------------------------------------------------------------
(* Claim about the smoothed timeline *)

Smoothed == get_smoothed_probabilities(timeline_analyzer)

\* entries i-h .. i+h of a timeline of n entries, truncated at the ends
\* (1-based positions)
CenteredWindow(i, h, n) == Max(1, i - h) .. Min(n, i + h)

\* the mean of the fake probabilities of the entries at positions W
WindowMean(W) ==
    LET lo == CHOOSE x \in W : \A y \in W : x <= y
        hi == CHOOSE x \in W : \A y \in W : x >= y
    IN  MeanOfSlice([i \in 1..Len(Entries) |-> Reduce(Entries[i].fake_probability)],
                    lo - 1, hi)

\* C26: get_smoothed_probabilities returns as many values as the timeline
\* has entries, and value i is the mean of the fake probabilities over a
\* window centered on entry i, truncated at the ends, that spans no more
\* than smoothing_window entries.
C26_SmoothedIsCenteredWindowMean ==
    timeline_analyzer # None =>
        /\ Len(Smoothed) = Len(Entries)
        /\ \A i \in 1..Len(Entries) :
              \E h \in 0..Len(Entries) :
                 /\ Cardinality(CenteredWindow(i, h, Len(Entries)))
                        <= Max(1, timeline_analyzer.smoothing_window)
                 /\ Smoothed[i] = WindowMean(CenteredWindow(i, h, Len(Entries)))

\* what does hold: value i is the mean over entries i - w div 2 .. i + w div 2
\* (truncated) once the timeline has w entries, and the raw value before
SmoothedIsHalfWidthWindowMean ==
    timeline_analyzer # None =>
        /\ Len(Smoothed) = Len(Entries)
        /\ \A i \in 1..Len(Entries) :
              Smoothed[i] =
                 WindowMean(CenteredWindow(i,
                     IF Len(Entries) < timeline_analyzer.smoothing_window THEN 0
                     ELSE timeline_analyzer.smoothing_window \div 2, Len(Entries)))

---------------------------------------------------------------------------
(* One EyeBlinkDetector as a state machine: any sequence of add_frame and  *)
(* reset calls.  blink_log lists the frames given to add_frame since the   *)
(* construction or the last reset.                                         *)

\* most frames a detector is given between two resets in the model
MaxBlinkFrames == 7

EarlierThanBlinkIdle ==
    /\ ThreatIdle /\ ClassifierIdle /\ AnalyzersIdle /\ PipelineIdle /\ AudioIdle
    /\ GradCamIdle

BlinkInit ==
    /\ blink_detector = EyeBlinkDetector
    /\ blink_log = <<>>
    /\ EarlierThanBlinkIdle /\ MmIdle /\ AadhaarIdle /\ BufferIdle

BlinkFrame ==
    UNCHANGED <<threatVars, classifierVars, analyzerVars, pipelineVars, audioVars,
                gradcamVars, mmVars, aadhaarVars, bufferVars>>

\* blink_detector.add_frame(frame)
BlinkAddFrame ==
    /\ blink_detector # None
    /\ Len(blink_log) < MaxBlinkFrames
    /\ \E frame \in Frames :
          /\ blink_detector' = blink_add_frame(blink_detector, frame)
          /\ blink_log' = Append(blink_log, frame)
    /\ BlinkFrame

\* blink_detector.reset()
BlinkReset ==
    /\ blink_detector # None
    /\ blink_detector' = EyeBlinkDetector
    /\ blink_log' = <<>>
    /\ BlinkFrame

BlinkNext == BlinkAddFrame \/ BlinkReset

BlinkSpec == BlinkInit /\ [][BlinkNext]_vars

---------------------------------------------------------------------------
(* Claims about blink counting *)

\* a frame in which the eyes are closed, by either detection path: fewer
\* than two eyes found in the face, or the EAR below the threshold
ClosedFrame(f) == f.face /\ (f.eyes < 2 \/ f.ear < EAR_THRESHOLD)

OpenFrame(f) == f.face /\ f.eyes >= 2 /\ f.ear >= EAR_THRESHOLD

\* the frames with a face; add_frame returns early on the others and leaves
\* the closed-frame counter and the EAR history as they are
FaceFrames(log) == SelectSeq(log, LAMBDA f : f.face)

\* an open frame directly followed by two closed frames
OpenThenClosedRun(log) ==
    \E k \in 1..(Len(FaceFrames(log)) - 2) :
        /\ OpenFrame(FaceFrames(log)[k])
        /\ ClosedFrame(FaceFrames(log)[k + 1])
        /\ ClosedFrame(FaceFrames(log)[k + 2])

BlinkCounted == blink_detector'.blink_count > blink_detector.blink_count

\* C24: add_frame increments blink_count only when at least two consecutive
\* closed frames have been seen and they follow an open frame; a run of
\* closed frames with no open frame before it is never counted.
C24_BlinkNeedsOpenFrameBefore ==
    [][(BlinkAddFrame /\ BlinkCounted) => OpenThenClosedRun(blink_log')]_vars

\* what does hold: a blink is counted only with two closed frames just seen
BlinkNeedsTwoClosed ==
    [][(BlinkAddFrame /\ BlinkCounted) =>
          \E k \in 1..(Len(FaceFrames(blink_log')) - 1) :
              /\ ClosedFrame(FaceFrames(blink_log')[k])
              /\ ClosedFrame(FaceFrames(blink_log')[k + 1])]_vars

\* the number of maximal runs of closed frames among the frames with a face
ClosedRuns(log) ==
    Cardinality({k \in 1..Len(FaceFrames(log)) :
                    /\ ClosedFrame(FaceFrames(log)[k])
                    /\ (k = 1 \/ ~ClosedFrame(FaceFrames(log)[k - 1]))})

\* C30: each maximal run of consecutive closed-eye frames adds at most one
\* to blink_count, whichever detection paths its frames and the open frame
\* ending it go through, so the count never exceeds the number of runs;
\* blink_count never decreases between resets.
C30_OneBlinkPerClosedRun ==
    blink_detector # None => blink_detector.blink_count <= ClosedRuns(blink_log)

\* the second part of C30 alone
BlinkCountNeverDecreases ==
    [][BlinkAddFrame => blink_detector'.blink_count >= blink_detector.blink_count]_vars

---------------------------------------------------------------------------
(* AudioVideoAnalyzer.analyze as a state machine                           *)
(*                                                                         *)
(* mmCall holds what ffmpeg and cv2 make of the path: audio, what          *)
(* analyze_audio returns or raises for it, and video.                      *)

\* what analyze_audio returns or raises: no usable audio, a WAV header with
\* the sample rate 0, or the features of decoded audio
MmAudios ==
    {[outcome |-> "returned", value |-> InvalidFeatures("Failed to extract audio")],
     [outcome |-> "returned", value |-> InvalidFeatures("Failed to load audio data")]}
    \cup {analyze_loaded([audio |-> Some(n), sample_rate |-> r, signal |-> Flat]) :
            n \in {2, 48000}, r \in {0, 16000}}
    \cup {analyze_loaded([audio |-> Some(200), sample_rate |-> 16000, signal |-> SquareWave]),
          analyze_loaded([audio |-> Some(2048), sample_rate |-> 16000, signal |-> Voice]),
          analyze_loaded([audio |-> Some(3000), sample_rate |-> 16000, signal |-> Speech])}

\* videos of n readable frames: a still clip, a clip whose mouth follows the
\* audio, and one whose mouth lags 18 frames behind; a video of fewer than 50
\* frames is compared over its n frames
MmVideos ==
    {[opened |-> FALSE, fps |-> 0, readable |-> 0, still |-> TRUE]}
    \cup {[opened |-> TRUE, fps |-> 30, readable |-> n, still |-> TRUE] :
            n \in {0, 10, 49, 50, 51, 120, 400}}
    \cup {[opened |-> TRUE, fps |-> 30, readable |-> n, still |-> FALSE,
           xcorr |-> [max_corr |-> 80, lag |-> 0, low_windows |-> <<>>]] :
            n \in {10, 49, 50, 51, 120, 400}}
    \cup {[opened |-> TRUE, fps |-> 30, readable |-> n, still |-> FALSE,
           xcorr |-> [max_corr |-> 60, lag |-> Min(18, n - 1), low_windows |-> <<0>>]] :
            n \in {10, 49, 50, 51, 120, 400}}

MultimodalInit ==
    /\ mmCall \in {[video |-> v, audio |-> a] : v \in MmVideos, a \in MmAudios}
    /\ mmAnalysis = None
    /\ EarlierThanBlinkIdle /\ BlinkIdle /\ AadhaarIdle /\ BufferIdle

Analyze ==
    /\ mmCall # None /\ mmAnalysis = None
    /\ mmAnalysis' = Some(analyze(mmCall.video, mmCall.audio))
    /\ UNCHANGED <<threatVars, classifierVars, analyzerVars, pipelineVars, audioVars,
                   gradcamVars, blinkVars, mmCall, aadhaarVars, bufferVars>>

MultimodalSpec == MultimodalInit /\ [][Analyze]_vars

---------------------------------------------------------------------------
(* Claim about the multimodal analysis *)

\* analyze returned its MultiModalAnalysis
Analyzed == mmAnalysis # None /\ mmAnalysis[1].outcome = "returned"

MM == mmAnalysis[1].value

MmAudioValid == mmCall.audio.value.is_valid

NeutralWithoutAudio ==
    ~MmAudioValid =>
        /\ MM.audio_spoof_score = 5000
        /\ MM.lip_sync_score = 5000
        /\ MM.combined_score = 5000
        /\ MM.lip_sync_features = None
        /\ "lip_sync_features" \notin to_dict_keys(MM)

\* the mouth-motion samples obtained: those of analyze_sync when it ran
SamplesObtained ==
    IF MM.lip_sync_features = None THEN 0 ELSE MM.lip_sync_features[1].mouth_movement_energy

\* C27 as stated: confidence is 80 with valid audio and 30 otherwise, plus
\* 20 when at least 50 mouth-motion samples were obtained, never above 100;
\* with invalid audio the three scores are the neutral 50 and
\* lip_sync_features is absent.
C27_ConfidenceBonusFrom50 ==
    Analyzed =>
        /\ MM.confidence = (IF MmAudioValid THEN 80 ELSE 30)
                             + (IF SamplesObtained >= 50 THEN 20 ELSE 0)
        /\ MM.confidence <= 100
        /\ NeutralWithoutAudio

\* C27, amended: the bonus of 20 needs more than 50 mouth-motion samples.
C27_ConfidenceBonusAbove50 ==
    Analyzed =>
        /\ MM.confidence = (IF MmAudioValid THEN 80 ELSE 30)
                             + (IF SamplesObtained > 50 THEN 20 ELSE 0)
        /\ MM.confidence <= 100
        /\ NeutralWithoutAudio

\* valid audio with exactly 50 mouth-motion samples: no bonus
C27_Witness ==
    /\ Analyzed
    /\ MmAudioValid
    /\ SamplesObtained = 50
    /\ MM.confidence = 80

---------------------------------------------------------------------------
(* verify_aadhaar (Aadhar.py)                                              *)
(*                                                                         *)
(* aadhaarCall holds what the file system, cv2.imread, the OCR and the     *)
(* five checks yield for the image: how far the function gets ("missing",  *)
(* "unreadable", "no text", "raises" for an exception inside the try       *)
(* block, "checked"), the layout flags of the four critical fields and the *)
(* outcomes of the other checks.  Status texts are given without their     *)
(* leading symbol.                                                         *)

critical_fields == <<"name_english", "dob", "aadhaar", "gender">>

ErrorResult(status) == [score |-> 0, status |-> status, checks_passed |-> None]

\* the points of the layout check
LayoutPoints(critical_count) ==
    IF critical_count = 4 THEN 35
    ELSE IF critical_count = 3 THEN 25
    ELSE IF critical_count >= 2 THEN 15
    ELSE 0

StatusOf(critical_count, score) ==
    IF critical_count = 4
    THEN IF score >= 90 THEN "VERIFIED - Original Aadhar Card"
         ELSE IF score >= 80 THEN "Likely Original"
         ELSE "Valid Structure but Warnings"
    ELSE IF critical_count >= 3 THEN "Suspicious - Missing Field(s)"
    ELSE IF critical_count >= 2 THEN "Highly Suspicious - Multiple Fields Missing"
    ELSE "Invalid Aadhar Card"

\* verify_aadhaar(image_path): the score, the status and the checks passed
verify_aadhaar(c) ==
    IF c.reached = "missing" THEN ErrorResult("Error - Image not found")
    ELSE IF c.reached = "unreadable" THEN ErrorResult("Error - Invalid image")
    ELSE IF c.reached = "no text" THEN ErrorResult("Error - No text detected")
    ELSE IF c.reached = "raises" THEN ErrorResult("Error - Verification failed")
    ELSE LET critical_count ==
                 Cardinality({i \in DOMAIN critical_fields :
                                 Get(c.layout_flags, critical_fields[i], FALSE)})
             passed == <<critical_count = 4, c.qr_ok, c.font_ok, c.logo_ok, c.tamper_ok>>
             score == LayoutPoints(critical_count)
                        + (IF c.qr_ok THEN 20 ELSE 0)
                        + (IF c.font_ok THEN 15 ELSE 0)
                        + (IF c.logo_ok THEN 20 ELSE 0)
                        + (IF c.tamper_ok THEN 20 ELSE 0)
         IN  [score |-> score,
              status |-> StatusOf(critical_count, score),
              checks_passed |-> Some(Cardinality({i \in DOMAIN passed : passed[i]}))]

NothingChecked ==
    [layout_flags |-> [f \in Range(critical_fields) |-> FALSE], qr_ok |-> FALSE,
     font_ok |-> FALSE, logo_ok |-> FALSE, tamper_ok |-> FALSE]

AadhaarImages ==
    {[reached |-> r] @@ NothingChecked :
        r \in {"missing", "unreadable", "no text", "raises"}}
    \cup {[reached |-> "checked", layout_flags |-> l, qr_ok |-> q, font_ok |-> f,
           logo_ok |-> g, tamper_ok |-> t] :
            l \in [Range(critical_fields) -> BOOLEAN],
            q \in BOOLEAN, f \in BOOLEAN, g \in BOOLEAN, t \in BOOLEAN}

AadhaarInit ==
    /\ aadhaarCall \in AadhaarImages
    /\ aadhaar = None
    /\ EarlierThanBlinkIdle /\ BlinkIdle /\ MmIdle /\ BufferIdle

VerifyAadhaar ==
    /\ aadhaarCall # None /\ aadhaar = None
    /\ aadhaar' = Some(verify_aadhaar(aadhaarCall))
    /\ UNCHANGED <<threatVars, classifierVars, analyzerVars, pipelineVars, audioVars,
                   gradcamVars, blinkVars, mmVars, aadhaarCall, bufferVars>>

AadhaarSpec == AadhaarInit /\ [][VerifyAadhaar]_vars

---------------------------------------------------------------------------
(* Claim about the Aadhaar score *)

\* C22: verify_aadhaar returns a score within 0..100 for every combination
\* of outcomes of the layout, QR, font-hierarchy, logo and tampering checks.
C22_ScoreWithin0To100 ==
    aadhaar # None => (aadhaar[1].score >= 0 /\ aadhaar[1].score <= 100)

\* what does hold: the score is within 0..110, and within 0..100 unless all
\* five checks passed
ScoreWithin0To110 ==
    aadhaar # None =>
        /\ aadhaar[1].score >= 0 /\ aadhaar[1].score <= 110
        /\ aadhaar[1].score > 100 => aadhaar[1].checks_passed = Some(5)

---------------------------------------------------------------------------
(* FrameBuffer (webcam.py)                                                 *)
(*                                                                         *)
(* One FrameBuffer shared by threads that call add_frame and get_sequence. *)
(* The class takes no lock, so the threads interleave between the list     *)
(* operations of a method: append, len, pop(0), slice, and clear()'s       *)
(* rebinding of self.buffer.  Each of these is one step (the interpreter   *)
(* runs a single list operation without switching threads; an operation    *)
(* on a list that clear() replaced after self.buffer was read leaves no    *)
(* trace in the new list, which is the operation followed by clear()).     *)
(* A frame is named by the position of its append among all appends.       *)
(* bufferLog records the frames appended, in order, how many of them were  *)
(* appended before the last clear(), and the number of pop(0) calls that   *)
(* removed a frame since then.                                             *)

\* FrameBuffer(max_size)
FrameBuffer(max_size) == [buffer |-> <<>>, max_size |-> max_size]

\* self.buffer[-count:]: the slice from index -count, which is the last
\* count items for a positive count, the whole list for count 0 (-0 is 0)
\* and the list without its first -count items for a negative count
LastOf(buffer, count) ==
    IF count > 0 THEN SubSeq(buffer, Max(1, Len(buffer) - count + 1), Len(buffer))
    ELSE SubSeq(buffer, 1 - count, Len(buffer))

\* the count frames appended last, in the order of their appends
Latest(appended, count) ==
    SubSeq(appended, Max(1, Len(appended) - Max(0, count) + 1), Len(appended))

BufferThreadIds == {"t1", "t2"}

\* most add_frame calls made on the buffer in the model
MaxAdds == 4

BufferSizes == {2}

SequenceCounts == {1, 2, 0, -1}

IdleThread ==
    [pc |-> "idle", count |-> 0, returned |-> "nothing", frames |-> <<>>, latest |-> <<>>]

BufferInit ==
    /\ \E max_size \in BufferSizes : frame_buffer = FrameBuffer(max_size)
    /\ bufferThreads = [t \in BufferThreadIds |-> IdleThread]
    /\ bufferLog = [appended |-> <<>>, cleared |-> 0, popped |-> 0]
    /\ EarlierThanBlinkIdle /\ BlinkIdle /\ MmIdle /\ AadhaarIdle

BufferFrame ==
    UNCHANGED <<threatVars, classifierVars, analyzerVars, pipelineVars, audioVars,
                gradcamVars, blinkVars, mmVars, aadhaarVars>>

\* add_frame, line 48: self.buffer.append(frame.copy())
AddAppend(t) ==
    /\ bufferThreads[t].pc = "idle"
    /\ Len(bufferLog.appended) < MaxAdds
    /\ LET frame == Len(bufferLog.appended) + 1
       IN  /\ frame_buffer' = [frame_buffer EXCEPT !.buffer = Append(@, frame)]
           /\ bufferLog' = [bufferLog EXCEPT !.appended = Append(@, frame)]
    /\ bufferThreads' = [bufferThreads EXCEPT ![t] = [IdleThread EXCEPT !.pc = "check"]]
    /\ BufferFrame

\* add_frame, line 49: if len(self.buffer) > self.max_size
AddCheck(t) ==
    /\ bufferThreads[t].pc = "check"
    /\ bufferThreads' =
          [bufferThreads EXCEPT ![t].pc =
              IF Len(frame_buffer.buffer) > frame_buffer.max_size THEN "pop" ELSE "idle"]
    /\ UNCHANGED <<frame_buffer, bufferLog>>
    /\ BufferFrame

\* add_frame, line 50: self.buffer.pop(0), which raises IndexError on the
\* empty list that a clear() since the len test left
AddPop(t) ==
    /\ bufferThreads[t].pc = "pop"
    /\ IF frame_buffer.buffer = <<>>
       THEN /\ bufferThreads' = [bufferThreads EXCEPT ![t].pc = "idle",
                                                      ![t].returned = "IndexError"]
            /\ UNCHANGED <<frame_buffer, bufferLog>>
       ELSE /\ frame_buffer' = [frame_buffer EXCEPT !.buffer = Tail(@)]
            /\ bufferLog' = [bufferLog EXCEPT !.popped = @ + 1]
            /\ bufferThreads' = [bufferThreads EXCEPT ![t].pc = "idle"]
    /\ BufferFrame

\* get_sequence(count), line 54: if len(self.buffer) >= count; line 56: return None
GetCheck(t) ==
    /\ bufferThreads[t].pc = "idle"
    /\ \E count \in SequenceCounts :
          bufferThreads' =
             [bufferThreads EXCEPT ![t] =
                 IF Len(frame_buffer.buffer) >= count
                 THEN [IdleThread EXCEPT !.pc = "slice", !.count = count]
                 ELSE [IdleThread EXCEPT !.count = count, !.returned = "None"]]
    /\ UNCHANGED <<frame_buffer, bufferLog>>
    /\ BufferFrame

\* get_sequence(count), line 55: return self.buffer[-count:]; latest is
\* what the last count appended frames are at that moment
GetSlice(t) ==
    /\ bufferThreads[t].pc = "slice"
    /\ bufferThreads' =
          [bufferThreads EXCEPT ![t].pc = "idle", ![t].returned = "list",
              ![t].frames = LastOf(frame_buffer.buffer, bufferThreads[t].count),
              ![t].latest = Latest(bufferLog.appended, bufferThreads[t].count)]
    /\ UNCHANGED <<frame_buffer, bufferLog>>
    /\ BufferFrame

\* clear(), line 60: self.buffer = [], as WebcamDeepfakeDetector.reset()
\* calls it (line 444)
Clear(t) ==
    /\ bufferThreads[t].pc = "idle"
    /\ frame_buffer' = [frame_buffer EXCEPT !.buffer = <<>>]
    /\ bufferLog' = [bufferLog EXCEPT !.cleared = Len(bufferLog.appended), !.popped = 0]
    /\ bufferThreads' = [bufferThreads EXCEPT ![t] = IdleThread]
    /\ BufferFrame

BufferThreadStep(t) ==
    AddAppend(t) \/ AddCheck(t) \/ AddPop(t) \/ GetCheck(t) \/ GetSlice(t) \/ Clear(t)

BufferNext == \E t \in BufferThreadIds : BufferThreadStep(t)

BufferSpec == BufferInit /\ [][BufferNext]_vars

---------------------------------------------------------------------------
(* Claim about the frame buffer *)

NoAddInProgress == \A t \in BufferThreadIds : bufferThreads[t].pc \notin {"check", "pop"}

\* the buffer is what was appended since the last clear() minus the frames
\* popped from its front
EvictedOldestFirst ==
    frame_buffer.buffer =
        SubSeq(bufferLog.appended, bufferLog.cleared + bufferLog.popped + 1,
               Len(bufferLog.appended))

\* with no add_frame in progress the buffer holds at most max_size frames
BufferNeverOverfull ==
    (frame_buffer # None /\ NoAddInProgress) =>
        Len(frame_buffer.buffer) <= frame_buffer.max_size

\* one eviction for each add beyond capacity, and no other
OneEvictionPerAddBeyondCapacity ==
    bufferLog.popped =
        Max(0, Len(bufferLog.appended) - bufferLog.cleared - frame_buffer.max_size)

\* what get_sequence returned is None or the count latest frames, in order
SequenceIsLatest(t) ==
    bufferThreads[t].returned = "list" =>
        /\ Len(bufferThreads[t].frames) = bufferThreads[t].count
        /\ bufferThreads[t].frames = bufferThreads[t].latest

\* C23: under every interleaving of add_frame and get_sequence calls of
\* concurrent threads, the buffer holds at most max_size frames whenever no
\* add_frame is in progress, frames are evicted oldest-first with exactly
\* one eviction per add beyond capacity, and get_sequence(count) returns
\* None or the count most recently added frames in insertion order.
C23_FrameBufferThreadSafe ==
    frame_buffer # None =>
        /\ EvictedOldestFirst
        /\ NoAddInProgress =>
              /\ Len(frame_buffer.buffer) <= frame_buffer.max_size
              /\ OneEvictionPerAddBeyondCapacity
        /\ \A t \in BufferThreadIds : SequenceIsLatest(t)

\* what does hold under every interleaving
BufferBoundedAndOrdered ==
    frame_buffer # None => (EvictedOldestFirst /\ BufferNeverOverfull)

\* the third part of C23 alone
SequencesAreLatest ==
    frame_buffer # None => \A t \in BufferThreadIds : SequenceIsLatest(t)

=============================================================================
